---- MODULE Spec2Model ----
(***************************************************************************)
(* Fleet-operations core of velivert-app: the movement tracker             *)
(* (bike_movement_tracker.py), the retroactive analysis endpoint           *)
(* (movements_analysis.py), the route optimizer (route_optimizer.py) and   *)
(* the multi-technician optimizer (multi_technician_optimizer.py).         *)
(***************************************************************************)
EXTENDS Integers, Sequences, FiniteSets, TLC

VARIABLES
    previous_positions,   \* BikeMovementTracker._previous_positions
    last,                 \* outcome of the last track_movements_and_snapshot call
    trail,                \* history: the readings the tracker's loop has processed
    bike_snapshots,       \* rows of table bike_snapshots
    bike_movements,       \* rows of table bike_movements, in insertion order
    now,                  \* datetime.utcnow(), in hours
    analysis,             \* outcome of the last analyze_historical_movements request
    route,                \* arguments and result of the last optimize_route call
    call_interventions,   \* assign_technicians: the interventions of the call
    cluster_centers,      \* kmeans.cluster_centers_
    balanced_clusters,    \* the clusters the balancing loops work on
    count_balanced,       \* what _balance_intervention_count returned
    pc,                   \* the loop assign_technicians is in
    loop,                 \* the locals of that loop
    num_technicians,      \* assign_technicians: the requested number of technicians
    assignment,           \* what assign_technicians returned
    calls,                \* two optimize_route invocations and the lists they share
    poll,                 \* the tables of the tracker and the last operation on them
    auth                  \* the users table and the last registration request

trackerVars == <<previous_positions, last, trail>>
backfillVars == <<bike_snapshots, bike_movements, now, analysis>>

routeVars == <<route>>
assignVars == <<call_interventions, cluster_centers, balanced_clusters, count_balanced, pc, loop,
                num_technicians, assignment>>

vars == <<previous_positions, last, trail, bike_snapshots, bike_movements, now, analysis, route,
          call_interventions, cluster_centers, balanced_clusters, count_balanced, pc, loop,
          num_technicians, assignment, calls, poll, auth>>

\* the variables of the sections that follow the four services
extraVars == <<calls, poll, auth>>

\* the components an operation of another service leaves alone
TrackerIdle == UNCHANGED trackerVars
BackfillIdle == UNCHANGED backfillVars
RouteIdle == UNCHANGED <<routeVars, assignVars, extraVars>>

(***************************************************************************)
(* Integer square root (floor), used by the planar distance abstractions.  *)
(***************************************************************************)
RECURSIVE ISqrtBin(_, _, _)
ISqrtBin(n, lo, hi) ==
    IF lo >= hi THEN lo
    ELSE LET mid == (lo + hi + 1) \div 2
         IN  IF mid * mid <= n THEN ISqrtBin(n, mid, hi) ELSE ISqrtBin(n, lo, mid - 1)

ISqrt(n) == ISqrtBin(n, 0, 46340)

(***************************************************************************)
(* ---------------------- Movement tracker ------------------------------- *)
(***************************************************************************)

\* Python None for a coordinate, and for a station id.
NoCoord == -999
NoStation == "None"

\* Python truthiness of a DECIMAL coordinate / of a station id string.
FalsyCoord(x) == x = NoCoord \/ x = 0
TruthyStation(s) == s # NoStation /\ s # ""

BikeIds == {"b1", "b2"}

MOVEMENT_THRESHOLD == 10

\* variant: the module binds `logger`
LoggerDefined_Bound == TRUE

\* does module bike_movement_tracker bind the name `logger`?  It imports
\* datetime, typing, sqlalchemy, math and the models only.
LoggerDefined == FALSE

Reading(la, lo, st, dis) ==
    [lat |-> la, lon |-> lo, current_station_id |-> st, is_disabled |-> dis]

\* Sample readings of a vehicle: three positions on a line 10 m and 15 m from
\* the first, docked or not, and three readings whose position is missing or
\* has a zero coordinate.
Readings ==
    { Reading(1, 1, NoStation, FALSE), Reading(1, 1, "S1", FALSE),
      Reading(1, 1, "S2", FALSE),      Reading(3, 1, "S1", FALSE),
      Reading(4, 1, NoStation, TRUE),  Reading(4, 1, "S1", FALSE),
      Reading(NoCoord, NoCoord, NoStation, FALSE),
      Reading(0, 1, "S1", FALSE),      Reading(1, 0, NoStation, FALSE) }

Bike(id, r) ==
    [bike_id |-> id, lat |-> r.lat, lon |-> r.lon,
     current_station_id |-> r.current_station_id, is_disabled |-> r.is_disabled]

\* Rosters: lists of Bike rows with distinct primary keys.  The two ids are
\* interchangeable, so one order of a two-bike roster stands for both.
Rosters ==
    {<< >>}
    \cup { <<Bike(b, r)>> : b \in BikeIds, r \in Readings }
    \cup { <<Bike("b1", r1), Bike("b2", r2)>> : r1 \in Readings, r2 \in Readings }

\* The entry stored in _previous_positions for a bike row or a snapshot row.
PositionEntry(row) ==
    [lat |-> row.lat, lon |-> row.lon, station_id |-> row.current_station_id,
     is_disabled |-> row.is_disabled]

EmptyMap == [b \in {} |-> PositionEntry(Bike("b1", Reading(1, 1, NoStation, FALSE)))]

MapPut(m, k, v) == [b \in (DOMAIN m) \cup {k} |-> IF b = k THEN v ELSE m[b]]

\* Views of the bikes table and of the latest snapshot per bike, as the
\* queries of the tracker return them (rows of a few sample readings).
TableReadings ==
    { Reading(1, 1, NoStation, FALSE), Reading(1, 1, "S1", FALSE),
      Reading(0, 1, "S1", FALSE) }

SnapshotReadings ==
    { Reading(1, 1, "S1", FALSE) }

BikeTableViews ==
    UNION { [S -> TableReadings] : S \in SUBSET BikeIds }

SnapshotViews ==
    UNION { [S -> SnapshotReadings] : S \in SUBSET BikeIds }

\* calculate_distance: metres between two positions.  Vehicle coordinates are
\* counted in steps of 5 m on a plane (25 = 5 * 5); the result is rounded down.
calculate_distance(lat1, lon1, lat2, lon2) ==
    ISqrt(((lat2 - lat1) * (lat2 - lat1) + (lon2 - lon1) * (lon2 - lon1)) * 25)

\* variant: the relocation branch without the inequality test
determine_movement_type_AnyTwoStations(prev_station_id, curr_station_id) ==
    IF TruthyStation(prev_station_id) /\ ~TruthyStation(curr_station_id) THEN "pickup"
    ELSE IF ~TruthyStation(prev_station_id) /\ TruthyStation(curr_station_id) THEN "dropoff"
    ELSE IF TruthyStation(prev_station_id) /\ TruthyStation(curr_station_id) THEN "relocation"
    ELSE "in_transit"

determine_movement_type(prev_station_id, curr_station_id) ==
    IF TruthyStation(prev_station_id) /\ ~TruthyStation(curr_station_id) THEN "pickup"
    ELSE IF ~TruthyStation(prev_station_id) /\ TruthyStation(curr_station_id) THEN "dropoff"
    ELSE IF TruthyStation(prev_station_id) /\ TruthyStation(curr_station_id)
            /\ prev_station_id # curr_station_id THEN "relocation"
    ELSE "in_transit"

\* load_previous_positions: every bike row with truthy lat and lon.
load_previous_positions(table) ==
    [b \in { x \in DOMAIN table : ~FalsyCoord(table[x].lat) /\ ~FalsyCoord(table[x].lon) }
        |-> PositionEntry(table[b])]

\* the seeding block of detect_and_record_movements: latest snapshot per bike.
SeedFromSnapshots(snaps) == [b \in DOMAIN snaps |-> PositionEntry(snaps[b])]

\* variant: only a zero coordinate is skipped, a missing one is not
HasNoPosition_ZeroOnly(bike) == bike.lat = 0 \/ bike.lon = 0

\* `if not bike.lat or not bike.lon: continue`, in both loops
HasNoPosition(bike) == FalsyCoord(bike.lat) \/ FalsyCoord(bike.lon)

\* variant: the threshold itself counts as a movement
MovementCondition_Inclusive(distance, prev_station_id, curr_station_id) ==
    distance >= MOVEMENT_THRESHOLD \/ prev_station_id # curr_station_id

\* the test that decides whether a movement is recorded
MovementCondition(distance, prev_station_id, curr_station_id) ==
    distance > MOVEMENT_THRESHOLD \/ prev_station_id # curr_station_id

BikeMovement(bike, prev, movement_type, distance) ==
    [bike_id |-> bike.bike_id,
     from_station_id |-> prev.station_id, from_lat |-> prev.lat, from_lon |-> prev.lon,
     to_station_id |-> bike.current_station_id, to_lat |-> bike.lat, to_lon |-> bike.lon,
     movement_type |-> movement_type, distance_meters |-> distance,
     is_disabled |-> bike.is_disabled]

BikeSnapshot(bike) ==
    [bike_id |-> bike.bike_id, station_id |-> bike.current_station_id,
     lat |-> bike.lat, lon |-> bike.lon, is_disabled |-> bike.is_disabled]

\* variant: the stored position is replaced only when a movement is recorded
UpdateStoredPosition_OnMovementOnly(cache, bike, moved) ==
    IF moved THEN MapPut(cache, bike.bike_id, PositionEntry(bike)) ELSE cache

\* `# Update stored position`: the last statement of the loop body, reached
\* by every reading that has a prior entry, moved or not.
UpdateStoredPosition(cache, bike, moved) ==
    MapPut(cache, bike.bike_id, PositionEntry(bike))

\* The loop of detect_and_record_movements over current_bikes, from index i.
\* st = [cache, movements, status, detected, types, raised_at]
RECURSIVE DetectLoop(_, _, _)
DetectLoop(st, current_bikes, i) ==
    IF i > Len(current_bikes) THEN st
    ELSE
      LET bike == current_bikes[i] IN
      IF HasNoPosition(bike)
      THEN DetectLoop(st, current_bikes, i + 1)
      ELSE IF bike.bike_id \notin DOMAIN st.cache
      THEN DetectLoop([st EXCEPT !.cache = MapPut(st.cache, bike.bike_id, PositionEntry(bike))],
                      current_bikes, i + 1)
      ELSE
        LET prev == st.cache[bike.bike_id]
            distance == calculate_distance(prev.lat, prev.lon, bike.lat, bike.lon)
            moved == MovementCondition(distance, prev.station_id, bike.current_station_id)
            movement_type == determine_movement_type(prev.station_id, bike.current_station_id)
        IN
        IF moved /\ ~LoggerDefined
        THEN \* logger.info("movement_detected", ...) raises NameError
             [st EXCEPT !.status = "NameError", !.raised_at = i,
                        !.detected = st.detected \cup {bike.bike_id},
                        !.types = MapPut(st.types, bike.bike_id, movement_type)]
        ELSE
          LET st1 == IF moved
                     THEN [st EXCEPT
                             !.movements = Append(st.movements,
                                   BikeMovement(bike, prev, movement_type, distance)),
                             !.detected = st.detected \cup {bike.bike_id},
                             !.types = MapPut(st.types, bike.bike_id, movement_type)]
                     ELSE st
          IN DetectLoop([st1 EXCEPT !.cache = UpdateStoredPosition(st1.cache, bike, moved)],
                        current_bikes, i + 1)

\* detect_and_record_movements from the map `cache`; snaps is the result of
\* the latest-snapshot query, read only when the map is empty.
detect_and_record_movements(cache, snaps, current_bikes) ==
    LET seeded == IF DOMAIN cache = {} THEN SeedFromSnapshots(snaps) ELSE cache
        st0 == [cache |-> seeded, movements |-> << >>, status |-> "ok",
                detected |-> {}, types |-> [b \in {} |-> ""], raised_at |-> 0]
    IN  IF DOMAIN cache = {} /\ ~LoggerDefined
        THEN \* logger.info("previous_positions_loaded", ...) raises NameError
             [st0 EXCEPT !.status = "NameError"]
        ELSE DetectLoop(st0, current_bikes, 1)

\* create_snapshots: one snapshot per bike with truthy lat and lon.
create_snapshots(bikes) ==
    LET kept == SelectSeq(bikes, LAMBDA bike : ~HasNoPosition(bike))
    IN  [i \in 1..Len(kept) |-> BikeSnapshot(kept[i])]

\* track_movements_and_snapshot as a function of the tracker's map, the two
\* query results and the roster.
track_movements_and_snapshot(cache, table, snaps, bikes) ==
    LET loaded == IF DOMAIN cache = {} THEN load_previous_positions(table) ELSE cache
        d == detect_and_record_movements(loaded, snaps, bikes)
        prior == IF DOMAIN loaded = {} THEN SeedFromSnapshots(snaps) ELSE loaded
    IN  [args |-> [cache |-> cache, table |-> table, snaps |-> snaps],
         roster |-> bikes,
         prior |-> prior,
         seed_failed |-> (DOMAIN loaded = {} /\ d.status # "ok"),
         cache |-> d.cache,
         status |-> d.status,
         detected |-> d.detected,
         types |-> d.types,
         raised_at |-> d.raised_at,
         movements |-> IF d.status = "ok" THEN d.movements ELSE << >>,
         snapshots |-> IF d.status = "ok" THEN create_snapshots(bikes) ELSE << >>,
         movements_detected |-> IF d.status = "ok" THEN Len(d.movements) ELSE -1,
         snapshots_created |-> IF d.status = "ok" THEN Len(create_snapshots(bikes)) ELSE -1]

NoCall ==
    [args |-> [cache |-> EmptyMap, table |-> EmptyMap, snaps |-> EmptyMap],
     roster |-> << >>, prior |-> EmptyMap, seed_failed |-> FALSE, cache |-> EmptyMap,
     status |-> "none", detected |-> {}, types |-> [b \in {} |-> ""], raised_at |-> 0,
     movements |-> << >>, snapshots |-> << >>,
     movements_detected |-> -1, snapshots_created |-> -1]

\* The roster rows whose loop body ran to its end in the call with outcome r:
\* the row has a position, the loop reached it and did not raise on it.
ProcessedRows(r) ==
    { i \in 1..Len(r.roster) :
        /\ r.status # "none"
        /\ ~r.seed_failed
        /\ ~HasNoPosition(r.roster[i])
        /\ (r.raised_at = 0 \/ r.raised_at > i) }

\* one reading is at most 10 m from the other and has the same station id
Creeps(prev, bike) ==
    /\ calculate_distance(prev.lat, prev.lon, bike.lat, bike.lon) <= MOVEMENT_THRESHOLD
    /\ prev.station_id = bike.current_station_id

EmptyTrail == [b \in {} |-> [origin |-> PositionEntry(Bike("b1", Reading(1, 1, NoStation, FALSE))),
                               prev |-> PositionEntry(Bike("b1", Reading(1, 1, NoStation, FALSE)))]]

\* The history of processed readings after the call with outcome r: per
\* vehicle the reading processed last (prev) and the first reading of the run
\* of processed readings that each crept from the one before (origin).
NextTrail(tr, r) ==
    LET rows == ProcessedRows(r)
        ids == { r.roster[i].bike_id : i \in rows }
        row(b) == r.roster[CHOOSE i \in rows : r.roster[i].bike_id = b]
    IN  [b \in (DOMAIN tr) \cup ids |->
            IF b \notin ids THEN tr[b]
            ELSE [origin |-> IF b \in DOMAIN tr /\ Creeps(tr[b].prev, row(b))
                             THEN tr[b].origin ELSE PositionEntry(row(b)),
                  prev |-> PositionEntry(row(b))]]

TrackerInit ==
    /\ previous_positions = EmptyMap
    /\ last = NoCall
    /\ trail = EmptyTrail

\* BikeMovementTracker(db): a new tracker starts with an empty map.
NewTracker ==
    /\ previous_positions' = EmptyMap
    /\ last' = NoCall
    /\ trail' = EmptyTrail
    /\ BackfillIdle /\ RouteIdle

\* A call of track_movements_and_snapshot on a tracker whose map is not empty:
\* no query is issued.
TrackWarm ==
    /\ DOMAIN previous_positions # {}
    /\ \E bikes \in Rosters :
         LET r == track_movements_and_snapshot(previous_positions, EmptyMap, EmptyMap, bikes)
         IN  /\ previous_positions' = r.cache
             /\ last' = r
             /\ trail' = trail
    /\ BackfillIdle /\ RouteIdle

\* A call on a tracker whose map is empty: the bikes table is read, and the
\* latest snapshots when the table yields no position.
TrackCold ==
    /\ DOMAIN previous_positions = {}
    /\ \E bikes \in Rosters, table \in BikeTableViews :
         \E snaps \in IF DOMAIN load_previous_positions(table) = {}
                      THEN SnapshotViews ELSE {EmptyMap} :
         LET r == track_movements_and_snapshot(previous_positions, table, snaps, bikes)
         IN  /\ previous_positions' = r.cache
             /\ last' = r
             /\ trail' = trail
    /\ BackfillIdle /\ RouteIdle

(***************************************************************************)
(* Properties of the movement tracker.                                     *)
(***************************************************************************)

RosterIdx == 1..Len(last.roster)

\* the position of a roster row is known: both coordinates are present
PositionKnown(bike) == bike.lat # NoCoord /\ bike.lon # NoCoord

\* the loop of the last call reached roster row i
LoopReached(i) ==
    /\ last.status # "none"
    /\ ~last.seed_failed
    /\ (last.raised_at = 0 \/ last.raised_at >= i)

MovementsOf(id) == SelectSeq(last.movements, LAMBDA m : m.bike_id = id)
SnapshotsOf(id) == SelectSeq(last.snapshots, LAMBDA sn : sn.bike_id = id)

DistanceMoved(bike) ==
    calculate_distance(last.prior[bike.bike_id].lat, last.prior[bike.bike_id].lon,
                       bike.lat, bike.lon)

\* C1 (as claimed): a vehicle with no prior entry when the loop processes it
\* gets no MovementRecord, and if its position is known its reading becomes
\* the baseline and a snapshot of it is produced by the same call.
C1_FirstSightBaselineAndSnapshot ==
    \A i \in RosterIdx :
        LET bike == last.roster[i] IN
        (LoopReached(i) /\ bike.bike_id \notin DOMAIN last.prior)
        => /\ MovementsOf(bike.bike_id) = << >>
           /\ PositionKnown(bike)
                => /\ bike.bike_id \in DOMAIN previous_positions
                   /\ previous_positions[bike.bike_id] = PositionEntry(bike)
                   /\ SnapshotsOf(bike.bike_id) = <<BikeSnapshot(bike)>>

\* C2 (as claimed): a vehicle with a known position and a prior entry whose
\* distance exceeds 10 m or whose station id changed gets exactly one
\* MovementRecord from the prior entry to the current reading, and the call
\* completes normally with the record counted.
C2_MovementEmittedOnChange ==
    \A i \in RosterIdx :
        LET bike == last.roster[i] IN
        (/\ last.status # "none"
         /\ PositionKnown(bike)
         /\ bike.bike_id \in DOMAIN last.prior
         /\ (DistanceMoved(bike) > 10
               \/ last.prior[bike.bike_id].station_id # bike.current_station_id))
        => /\ last.status = "ok"
           /\ Len(MovementsOf(bike.bike_id)) = 1
           /\ LET m == MovementsOf(bike.bike_id)[1] IN
                /\ m.from_lat = last.prior[bike.bike_id].lat
                /\ m.from_lon = last.prior[bike.bike_id].lon
                /\ m.from_station_id = last.prior[bike.bike_id].station_id
                /\ m.to_lat = bike.lat /\ m.to_lon = bike.lon
                /\ m.to_station_id = bike.current_station_id
           /\ last.movements_detected >= 1

\* C3: a vehicle at most 10 m (boundary included) from its prior position and
\* with an unchanged station id is not classified as moved: no MovementRecord
\* is emitted for it and the movement branch is not entered for it.
C3_NoMovementWithinThreshold ==
    \A i \in RosterIdx :
        LET bike == last.roster[i] IN
        (/\ last.status # "none"
         /\ PositionKnown(bike)
         /\ bike.bike_id \in DOMAIN last.prior
         /\ DistanceMoved(bike) <= 10
         /\ last.prior[bike.bike_id].station_id = bike.current_station_id)
        => /\ MovementsOf(bike.bike_id) = << >>
           /\ bike.bike_id \notin last.detected

\* a vehicle exactly 10 m from its prior position, same station, was processed
\* by a call that completed
C3_Witness ==
    \E i \in RosterIdx :
        LET bike == last.roster[i] IN
        /\ last.status = "ok"
        /\ bike.bike_id \in DOMAIN last.prior
        /\ PositionKnown(bike)
        /\ DistanceMoved(bike) = 10
        /\ last.prior[bike.bike_id].station_id = bike.current_station_id
        /\ previous_positions[bike.bike_id] = PositionEntry(bike)

StationPresent(s) == s # NoStation /\ s # ""

\* the category table of the claim
ClaimedCategory(prior_station, current_station) ==
    CASE StationPresent(prior_station) /\ ~StationPresent(current_station) -> "pickup"
      [] ~StationPresent(prior_station) /\ StationPresent(current_station) -> "dropoff"
      [] StationPresent(prior_station) /\ StationPresent(current_station)
           /\ prior_station # current_station -> "relocation"
      [] OTHER -> "in_transit"

\* C4: the category computed for a vehicle classified as moved is the one the
\* table gives for (prior station id, current station id), and no emitted
\* MovementRecord carries another category.
C4_CategoryTable ==
    /\ \A i \in RosterIdx :
         LET bike == last.roster[i] IN
         bike.bike_id \in last.detected
         => last.types[bike.bike_id] =
              ClaimedCategory(last.prior[bike.bike_id].station_id, bike.current_station_id)
    /\ \A k \in 1..Len(last.movements) :
         last.movements[k].movement_type =
           ClaimedCategory(last.movements[k].from_station_id, last.movements[k].to_station_id)

\* a vehicle docked at the same station before and after, moved by more than
\* 10 m, was classified
C4_Witness ==
    \E i \in RosterIdx :
        LET bike == last.roster[i] IN
        /\ bike.bike_id \in last.detected
        /\ StationPresent(bike.current_station_id)
        /\ last.prior[bike.bike_id].station_id = bike.current_station_id
        /\ last.types[bike.bike_id] = "in_transit"

\* C5 (as claimed): after every call, every roster vehicle with a known
\* position has a snapshot of its current reading and its map entry equals the
\* current reading.
C5_SnapshotAndBaselineAlways ==
    last.status # "none"
    => \A i \in RosterIdx :
         LET bike == last.roster[i] IN
         PositionKnown(bike)
         => /\ SnapshotsOf(bike.bike_id) = <<BikeSnapshot(bike)>>
            /\ bike.bike_id \in DOMAIN previous_positions
            /\ previous_positions[bike.bike_id] = PositionEntry(bike)

\* the roster of the last call without its position-less rows
WithoutPositionless == SelectSeq(last.roster, PositionKnown)

\* C6: a vehicle without a position gets no snapshot and no movement, its map
\* entry is left as it was, and the call has the same outcome (map, status,
\* movements, snapshots) as the same call on the roster without it.
C6_PositionlessSkipped ==
    last.status # "none"
    => /\ \A i \in RosterIdx :
            LET bike == last.roster[i] IN
            ~PositionKnown(bike)
            => /\ SnapshotsOf(bike.bike_id) = << >>
               /\ MovementsOf(bike.bike_id) = << >>
               /\ bike.bike_id \notin last.detected
               /\ (bike.bike_id \in DOMAIN last.prior
                     => /\ bike.bike_id \in DOMAIN previous_positions
                        /\ previous_positions[bike.bike_id] = last.prior[bike.bike_id])
               /\ (last.status = "ok" /\ bike.bike_id \notin DOMAIN last.prior
                     => bike.bike_id \notin DOMAIN previous_positions)
       /\ LET r == track_movements_and_snapshot(last.args.cache, last.args.table,
                                                last.args.snaps, WithoutPositionless)
          IN  /\ r.cache = previous_positions
              /\ r.status = last.status
              /\ r.detected = last.detected
              /\ r.movements = last.movements
              /\ r.snapshots = last.snapshots

\* a position-less vehicle with a map entry shared a completed call with a
\* vehicle that was snapshotted
C6_Witness ==
    /\ last.status = "ok"
    /\ \E i \in RosterIdx : /\ ~PositionKnown(last.roster[i])
                            /\ last.roster[i].bike_id \in DOMAIN last.prior
    /\ Len(last.snapshots) = 1

(***************************************************************************)
(* A kept tracker followed over its invocations: the same calls, with the  *)
(* history of the readings its loop processed.                             *)
(***************************************************************************)

\* Readings of a followed vehicle: three positions of one station 10 m, 5 m
\* and 15 m apart, a change of station, and two readings the loop skips.
FollowedReadings ==
    { Reading(1, 1, "S1", FALSE), Reading(3, 1, "S1", FALSE),
      Reading(4, 1, "S1", FALSE), Reading(1, 1, "S2", FALSE),
      Reading(NoCoord, NoCoord, NoStation, FALSE), Reading(0, 1, "S1", FALSE) }

FollowedRosters ==
    {<< >>}
    \cup { <<Bike(b, r)>> : b \in BikeIds, r \in FollowedReadings }
    \cup { <<Bike("b1", r1), Bike("b2", r2)>> : r1 \in FollowedReadings, r2 \in FollowedReadings }

\* A call of track_movements_and_snapshot on the kept tracker, its map not
\* empty.
FollowedWarm ==
    /\ DOMAIN previous_positions # {}
    /\ \E bikes \in FollowedRosters :
         LET r == track_movements_and_snapshot(previous_positions, EmptyMap, EmptyMap, bikes)
         IN  /\ previous_positions' = r.cache
             /\ last' = r
             /\ trail' = NextTrail(trail, r)
    /\ BackfillIdle /\ RouteIdle

\* The first call of the tracker: its map is loaded from the bikes table, or
\* from the latest snapshots when the table yields no position.
FollowedCold ==
    /\ DOMAIN previous_positions = {}
    /\ \E bikes \in FollowedRosters, table \in BikeTableViews :
         \E snaps \in IF DOMAIN load_previous_positions(table) = {}
                      THEN SnapshotViews ELSE {EmptyMap} :
         LET r == track_movements_and_snapshot(previous_positions, table, snaps, bikes)
         IN  /\ previous_positions' = r.cache
             /\ last' = r
             /\ trail' = NextTrail(trail, r)
    /\ BackfillIdle /\ RouteIdle

TrailDistance(b) ==
    calculate_distance(trail[b].origin.lat, trail[b].origin.lon,
                       trail[b].prev.lat, trail[b].prev.lon)

\* C28: on a kept tracker, a reading that is at most 10 m from the reading of
\* the same vehicle processed before it, with the same station id, is compared
\* with that reading: the movement branch is not entered for it, no
\* MovementRecord is emitted for it, and it becomes the baseline in turn,
\* however far the vehicle has crept from the first reading of the run.
C28_BaselineIsPrecedingReading ==
    [][ \A i \in 1..Len(last'.roster) :
          LET bike == last'.roster[i] IN
          (/\ last'.status # "none"
           /\ ~HasNoPosition(bike)
           /\ bike.bike_id \in DOMAIN trail
           /\ bike.bike_id \in DOMAIN previous_positions
           /\ Creeps(trail[bike.bike_id].prev, bike))
          => /\ last'.prior[bike.bike_id] = trail[bike.bike_id].prev
             /\ bike.bike_id \notin last'.detected
             /\ SelectSeq(last'.movements, LAMBDA m : m.bike_id = bike.bike_id) = << >>
             /\ (last'.raised_at = 0 \/ last'.raised_at > i)
                  => previous_positions'[bike.bike_id] = PositionEntry(bike) ]_vars

\* a vehicle has crept more than 10 m from the first reading of its run, in
\* steps of at most 10 m, and the call that processed its last reading
\* completed without a MovementRecord
C28_Witness ==
    \E i \in RosterIdx :
        LET b == last.roster[i].bike_id IN
        /\ last.status = "ok"
        /\ i \in ProcessedRows(last)
        /\ b \in DOMAIN trail
        /\ trail[b].prev = PositionEntry(last.roster[i])
        /\ TrailDistance(b) > MOVEMENT_THRESHOLD
        /\ last.movements = << >>
        /\ previous_positions[b] = trail[b].prev

(***************************************************************************)
(* ------------- Retroactive analysis (movements_analysis.py) ------------ *)
(***************************************************************************)

\* number of snapshot cycles (hours of history) explored
MaxTime == 3

\* largest `hours` parameter of a request explored (the endpoint allows 1..168)
MaxHours == 2

\* Readings that snapshot cycles store for b1 and for b2.
SnapshotSamples ==
    [b \in BikeIds |->
        IF b = "b1"
        THEN { Reading(1, 1, "S1", FALSE), Reading(4, 1, "S1", FALSE) }
        ELSE { Reading(1, 1, "S1", FALSE), Reading(4, 1, NoStation, FALSE) }]

SnapshotRow(t, b, r) ==
    [time |-> t, bike_id |-> b, station_id |-> r.current_station_id,
     lat |-> r.lat, lon |-> r.lon, is_disabled |-> r.is_disabled]

NoAnalysis ==
    [status |-> "none", hours |-> 0, end_time |-> 0, rerun |-> FALSE,
     before |-> << >>, inserted |-> << >>, pairs |-> << >>]

BackfillInit ==
    /\ bike_snapshots = {}
    /\ bike_movements = << >>
    /\ now = 0
    /\ analysis = NoAnalysis

\* the snapshots of one bike inside the window, ordered by time
RECURSIVE SortByTime(_)
SortByTime(S) ==
    IF S = {} THEN << >>
    ELSE LET first == CHOOSE x \in S : \A y \in S : x.time <= y.time
         IN  <<first>> \o SortByTime(S \ {first})

SnapshotsInWindow(b, start_time, end_time) ==
    SortByTime({ sn \in bike_snapshots :
                   sn.bike_id = b /\ sn.time >= start_time /\ sn.time <= end_time })

\* variant: the upper end of the interval is excluded
ExistingMovements_OpenEnd(movements, bike_id, prev_snap, curr_snap) ==
    SelectSeq(movements, LAMBDA m : /\ m.bike_id = bike_id
                                    /\ m.detected_at >= prev_snap.time
                                    /\ m.detected_at < curr_snap.time)

\* the existence query: committed movements of the bike detected within
\* [prev_snap.time, curr_snap.time]  (the session does not autoflush)
ExistingMovements(movements, bike_id, prev_snap, curr_snap) ==
    SelectSeq(movements, LAMBDA m : /\ m.bike_id = bike_id
                                    /\ m.detected_at >= prev_snap.time
                                    /\ m.detected_at <= curr_snap.time)

SessionView_Autoflush(committed, pending) == committed \o pending

\* the rows a query of the request's session sees: AsyncSessionLocal is made
\* with autoflush=False, so the rows added by db.add are not among them
SessionView(committed, pending) == committed

\* the inline classification of the endpoint
BackfillMovementType(prev_station_id, curr_station_id) ==
    IF TruthyStation(prev_station_id) /\ ~TruthyStation(curr_station_id) THEN "pickup"
    ELSE IF ~TruthyStation(prev_station_id) /\ TruthyStation(curr_station_id) THEN "dropoff"
    ELSE IF TruthyStation(prev_station_id) /\ TruthyStation(curr_station_id) THEN "relocation"
    ELSE "in_transit"

BackfillMovement(bike_id, prev_snap, curr_snap, distance) ==
    [bike_id |-> bike_id,
     from_station_id |-> prev_snap.station_id,
     from_lat |-> prev_snap.lat, from_lon |-> prev_snap.lon,
     to_station_id |-> curr_snap.station_id,
     to_lat |-> curr_snap.lat, to_lon |-> curr_snap.lon,
     movement_type |-> BackfillMovementType(prev_snap.station_id, curr_snap.station_id),
     distance_meters |-> distance,
     is_disabled |-> curr_snap.is_disabled,
     detected_at |-> curr_snap.time]

\* The loop over the consecutive pairs of one bike, from pair i.
\* acc = [status, inserted, pairs]
RECURSIVE PairLoop(_, _, _, _)
PairLoop(acc, bike_id, snaps, i) ==
    IF acc.status # "ok" \/ i > Len(snaps) - 1 THEN acc
    ELSE
      LET prev_snap == snaps[i]
          curr_snap == snaps[i + 1]
          distance == calculate_distance(prev_snap.lat, prev_snap.lon,
                                         curr_snap.lat, curr_snap.lon)
          existing == ExistingMovements(SessionView(bike_movements, acc.inserted),
                                        bike_id, prev_snap, curr_snap)
      IN
      IF distance > MOVEMENT_THRESHOLD \/ prev_snap.station_id # curr_snap.station_id
      THEN IF Len(existing) > 1
           THEN \* scalar_one_or_none raises MultipleResultsFound
                [acc EXCEPT !.status = "MultipleResultsFound"]
           ELSE IF Len(existing) = 1
           THEN PairLoop(acc, bike_id, snaps, i + 1)
           ELSE PairLoop([acc EXCEPT
                            !.inserted = Append(acc.inserted,
                                  BackfillMovement(bike_id, prev_snap, curr_snap, distance)),
                            !.pairs = Append(acc.pairs,
                                  [bike_id |-> bike_id, from_time |-> prev_snap.time,
                                   to_time |-> curr_snap.time])],
                         bike_id, snaps, i + 1)
      ELSE PairLoop(acc, bike_id, snaps, i + 1)

\* The loop over the bikes that have snapshots in the window.
RECURSIVE BikeLoop(_, _, _, _)
BikeLoop(acc, bikes, start_time, end_time) ==
    IF bikes = {} THEN acc
    ELSE LET b == CHOOSE x \in bikes : \A y \in bikes : x = "b1" \/ y # "b1"
             snaps == SnapshotsInWindow(b, start_time, end_time)
         IN  BikeLoop(IF Len(snaps) < 2 THEN acc ELSE PairLoop(acc, b, snaps, 1),
                      bikes \ {b}, start_time, end_time)

\* POST /analyze-historical?hours=h : the whole request.  A raised exception
\* rolls the session back; otherwise the pending rows are committed.
AnalyzeHistorical(hours) ==
    LET end_time == now
        start_time == end_time - hours
        bikes == { sn.bike_id : sn \in { x \in bike_snapshots :
                                           x.time >= start_time /\ x.time <= end_time } }
        acc == BikeLoop([status |-> "ok", inserted |-> << >>, pairs |-> << >>],
                        bikes, start_time, end_time)
    IN  /\ bike_movements' = IF acc.status = "ok"
                             THEN bike_movements \o acc.inserted ELSE bike_movements
        /\ analysis' = [status |-> acc.status, hours |-> hours, end_time |-> end_time,
                        rerun |-> (analysis.status # "none" /\ analysis.hours = hours
                                     /\ analysis.end_time = end_time),
                        before |-> bike_movements,
                        inserted |-> IF acc.status = "ok" THEN acc.inserted ELSE << >>,
                        pairs |-> IF acc.status = "ok" THEN acc.pairs ELSE << >>]
        /\ UNCHANGED <<bike_snapshots, now>>
        /\ TrackerIdle /\ RouteIdle

AnalyzeHistoricalRequest == \E hours \in 1..MaxHours : AnalyzeHistorical(hours)

\* One poll cycle an hour later stores a snapshot of every bike it reports
\* (b1 in every cycle, b2 in some).
SnapshotCycle ==
    /\ now < MaxTime
    /\ \E S \in { X \in SUBSET BikeIds : "b1" \in X } :
         \E f \in [S -> UNION { SnapshotSamples[b] : b \in BikeIds }] :
            /\ \A b \in S : f[b] \in SnapshotSamples[b]
            /\ bike_snapshots' = bike_snapshots \cup { SnapshotRow(now + 1, b, f[b]) : b \in S }
    /\ now' = now + 1
    /\ UNCHANGED <<bike_movements, analysis>>
    /\ TrackerIdle /\ RouteIdle

\* C7: a request inserts a MovementRecord only for a pair whose interval held
\* no persisted MovementRecord of that vehicle before the request, and a
\* request repeated over the same snapshots leaves bike_movements unchanged.
C7_BackfillIdempotent ==
    /\ \A k \in 1..Len(analysis.pairs) :
         ~ \E j \in 1..Len(analysis.before) :
              /\ analysis.before[j].bike_id = analysis.pairs[k].bike_id
              /\ analysis.before[j].detected_at >= analysis.pairs[k].from_time
              /\ analysis.before[j].detected_at <= analysis.pairs[k].to_time
    /\ analysis.rerun => /\ analysis.inserted = << >>
                         /\ bike_movements = analysis.before

\* a repeated request found movements that the request before it had inserted
C7_Witness ==
    /\ analysis.rerun
    /\ analysis.status = "ok"
    /\ Len(analysis.before) >= 2
    /\ bike_movements = analysis.before

\* the snapshots of bike b that the last request loaded, ordered by time
AnalysedSnapshots(b) ==
    SnapshotsInWindow(b, analysis.end_time - analysis.hours, analysis.end_time)

\* the distance/station-change test on a pair of snapshots
PairMoved(prev_snap, curr_snap) ==
    MovementCondition(calculate_distance(prev_snap.lat, prev_snap.lon,
                                         curr_snap.lat, curr_snap.lon),
                      prev_snap.station_id, curr_snap.station_id)

\* the rows the last request inserted for the pair (prev_snap, curr_snap) of b
InsertedFor(b, prev_snap, curr_snap) ==
    { k \in 1..Len(analysis.inserted) :
        /\ analysis.inserted[k].bike_id = b
        /\ analysis.inserted[k].detected_at = curr_snap.time
        /\ analysis.inserted[k].from_lat = prev_snap.lat
        /\ analysis.inserted[k].from_lon = prev_snap.lon
        /\ analysis.inserted[k].from_station_id = prev_snap.station_id
        /\ analysis.inserted[k].to_lat = curr_snap.lat
        /\ analysis.inserted[k].to_lon = curr_snap.lon
        /\ analysis.inserted[k].to_station_id = curr_snap.station_id }

\* bike b had no MovementRecord before the last request and three
\* consecutive snapshots from the i-th on, both pairs passing the test
FreshMovingTriple(b, i) ==
    /\ \A j \in 1..Len(analysis.before) : analysis.before[j].bike_id # b
    /\ i + 2 <= Len(AnalysedSnapshots(b))
    /\ PairMoved(AnalysedSnapshots(b)[i], AnalysedSnapshots(b)[i + 1])
    /\ PairMoved(AnalysedSnapshots(b)[i + 1], AnalysedSnapshots(b)[i + 2])

C25_BackfillClassifiesAsLive ==
    \A k \in 1..Len(analysis.inserted) :
        analysis.inserted[k].movement_type
          = determine_movement_type(analysis.inserted[k].from_station_id,
                                    analysis.inserted[k].to_station_id)

\* the MovementRecords of b persisted before the last request whose detection
\* time lies in the interval of the pair (prev_snap, curr_snap)
RecordedBefore(b, prev_snap, curr_snap) ==
    ExistingMovements(analysis.before, b, prev_snap, curr_snap)

\* C29 (as claimed): a pair of consecutive snapshots whose interval holds two
\* or more persisted MovementRecords of the vehicle counts as already
\* recorded: the request inserts nothing for it and completes normally.
C29_SeveralRecordsSkipPair ==
    analysis.status # "none" =>
        \A b \in BikeIds : \A i \in 1..MaxTime :
            (/\ i + 1 <= Len(AnalysedSnapshots(b))
             /\ Len(RecordedBefore(b, AnalysedSnapshots(b)[i], AnalysedSnapshots(b)[i + 1])) >= 2)
            => /\ analysis.status = "ok"
               /\ InsertedFor(b, AnalysedSnapshots(b)[i], AnalysedSnapshots(b)[i + 1]) = {}

(***************************************************************************)
(* ------------------------- Route optimizer ----------------------------- *)
(* Coordinates are integers in units of 250 m on a plane; a distance that  *)
(* the service holds as a float number of kilometres is an integer number  *)
(* of half-metres here.                                                    *)
(***************************************************************************)

MaxTasks == 3

\* half-metres per coordinate unit, and per metre / per kilometre
RouteScale == 500
UnitsPerMetre == 2
UnitsPerKm == 2000

Intervention(i, la, lo, p) == [id |-> i, lat |-> la, lon |-> lo, priority |-> p]

\* Sample interventions: two at the same place with different priorities, one
\* 15 km west of them, one 6 km north of that, one at a place whose distances
\* are not whole metres.
Interventions ==
    { Intervention("a", 0, 0, "low"), Intervention("b", 60, 0, "urgent"),
      Intervention("c", 0, 24, "low"), Intervention("d", 60, 0, "medium"),
      Intervention("e", 12, 12, "high") }

RECURSIVE SeqsUpTo(_, _)
SeqsUpTo(S, n) ==
    IF n = 0 THEN { << >> }
    ELSE LET shorter == SeqsUpTo(S, n - 1)
         IN  shorter \cup { Append(q, x) : q \in { r \in shorter : Len(r) = n - 1 }, x \in S }

\* the lists optimize_route is called with; one more task, of a priority the
\* service does not know, lies at the place of "c"
InterventionLists ==
    SeqsUpTo(Interventions \cup { Intervention("f", 0, 24, "later") }, MaxTasks)

\* start locations: half way between "a" and "b", and on top of "c"
StartLocations == { <<30, 0>>, <<0, 24>> }

\* the largest sum of squared coordinate differences whose distance in
\* half-metres is below 2^31 when squared
MaxSquareDistance == 92 * 92

\* the distance in half-metres of every sum of squared coordinate differences
RouteDistanceOf == [d2 \in 0..MaxSquareDistance |-> ISqrt(d2 * RouteScale * RouteScale)]

_calculate_distance(loc1, loc2) ==
    RouteDistanceOf[(loc2[1] - loc1[1]) ^ 2 + (loc2[2] - loc1[2]) ^ 2]

priority_order(p) ==
    CASE p = "urgent" -> 0
      [] p = "high"   -> 1
      [] p = "medium" -> 2
      [] OTHER        -> 3

\* sorted(interventions, key=priority_order...): a stable sort
RECURSIVE InsertStable(_, _)
InsertStable(t, x) ==
    IF t = << >> THEN <<x>>
    ELSE IF priority_order(t[Len(t)].priority) <= priority_order(x.priority)
         THEN Append(t, x)
         ELSE Append(InsertStable(SubSeq(t, 1, Len(t) - 1), x), t[Len(t)])

RECURSIVE sorted(_)
sorted(q) ==
    IF q = << >> THEN << >>
    ELSE InsertStable(sorted(SubSeq(q, 1, Len(q) - 1)), q[Len(q)])

NearestIndex_LastOfNearest(remaining, current_location) ==
    LET dist(k) == _calculate_distance(current_location, <<remaining[k].lat, remaining[k].lon>>)
    IN  CHOOSE i \in 1..Len(remaining) :
            /\ \A j \in 1..Len(remaining) : dist(i) <= dist(j)
            /\ \A j \in (i + 1)..Len(remaining) : dist(j) > dist(i)

\* min(remaining, key=distance from current_location): the first of the nearest
NearestIndex(remaining, current_location) ==
    LET dist(k) == _calculate_distance(current_location, <<remaining[k].lat, remaining[k].lon>>)
        least == CHOOSE x \in { dist(k) : k \in 1..Len(remaining) } :
                     \A k \in 1..Len(remaining) : x <= dist(k)
    IN  CHOOSE i \in 1..Len(remaining) :
            /\ dist(i) = least
            /\ \A j \in 1..(i - 1) : dist(j) # least

RemoveFirst_AllEqual(q, x) == SelectSeq(q, LAMBDA y : y # x)

\* list.remove(x): drops the first element equal to x
RemoveFirst(q, x) ==
    LET k == CHOOSE i \in 1..Len(q) : q[i] = x /\ \A j \in 1..(i - 1) : q[j] # x
    IN  SubSeq(q, 1, k - 1) \o SubSeq(q, k + 1, Len(q))

Waypoint(nearest, order) ==
    [intervention_id |-> nearest.id, order |-> order,
     lat |-> nearest.lat, lon |-> nearest.lon, priority |-> nearest.priority]

NextLocation_Stay(current_location, nearest) == current_location

\* current_location = (nearest.get("lat"), nearest.get("lon"))
NextLocation(current_location, nearest) == <<nearest.lat, nearest.lon>>

\* one iteration of the while loop of optimize_route
RouteLoopStep(st) ==
    LET nearest == st.remaining[NearestIndex(st.remaining, st.current_location)]
        distance == _calculate_distance(st.current_location, <<nearest.lat, nearest.lon>>)
    IN  [waypoints |-> Append(st.waypoints, Waypoint(nearest, Len(st.waypoints))),
         total_distance |-> st.total_distance + distance,
         current_location |-> NextLocation(st.current_location, nearest),
         remaining |-> RemoveFirst(st.remaining, nearest)]

\* the while loop of optimize_route
RECURSIVE RouteLoop(_)
RouteLoop(st) ==
    IF st.remaining = << >> THEN st ELSE RouteLoop(RouteLoopStep(st))

\* the result dictionary built from the locals the loop leaves
RouteResult(st) ==
    [waypoints |-> st.waypoints,
     total_distance_meters |-> st.total_distance \div UnitsPerMetre,
     estimated_duration_minutes |->
         (st.total_distance * 2 + Len(st.waypoints) * 5 * UnitsPerKm) \div UnitsPerKm,
     optimization_algorithm |-> "Nearest Neighbor"]

optimize_route(interventions, start_location, prioritize_urgent) ==
    LET sorted_interventions == IF prioritize_urgent THEN sorted(interventions)
                                ELSE interventions
    IN  RouteResult(RouteLoop([waypoints |-> << >>, total_distance |-> 0,
                               current_location |-> start_location,
                               remaining |-> sorted_interventions]))

NoRoute ==
    [called |-> FALSE, interventions |-> << >>, start_location |-> <<0, 0>>,
     prioritize_urgent |-> FALSE, result |-> optimize_route(<< >>, <<0, 0>>, FALSE)]

RouteInit == route = NoRoute

\* a call of optimize_route; the service keeps no state between calls
OptimizeRoute ==
    /\ ~ route.called
    /\ \E interventions \in InterventionLists, start_location \in StartLocations,
          prioritize_urgent \in BOOLEAN :
         route' = [called |-> TRUE, interventions |-> interventions,
                   start_location |-> start_location,
                   prioritize_urgent |-> prioritize_urgent,
                   result |-> optimize_route(interventions, start_location, prioritize_urgent)]
    /\ TrackerIdle /\ BackfillIdle /\ UNCHANGED <<assignVars, extraVars>>

\* the caller has taken the result
RouteReturn ==
    /\ route.called
    /\ route' = NoRoute
    /\ TrackerIdle /\ BackfillIdle /\ UNCHANGED <<assignVars, extraVars>>

\* the legs start -> w0 -> w1 -> ... of a list of waypoints, summed
RECURSIVE LegSum(_, _)
LegSum(from, w) ==
    IF w = << >> THEN 0
    ELSE _calculate_distance(from, <<w[1].lat, w[1].lon>>)
           + LegSum(<<w[1].lat, w[1].lon>>, SubSeq(w, 2, Len(w)))

InterventionOf(w) == Intervention(w.intervention_id, w.lat, w.lon, w.priority)

\* C8: the waypoints of a route are the input interventions, each as often as
\* the input holds it, numbered 0..n-1 in the returned order; the total
\* distance is the sum of the legs start -> w0 -> ... -> w(n-1) of that order,
\* in whole metres; an empty input gives no waypoint, distance 0, duration 0.
C8_RouteIsPermutationWithLegSum ==
    route.called =>
        LET w == route.result.waypoints
            q == route.interventions
        IN  /\ Len(w) = Len(q)
            /\ \A k \in 1..Len(w) : w[k].order = k - 1
            /\ \A k \in 1..Len(q) :
                 Cardinality({ j \in 1..Len(w) : InterventionOf(w[j]) = q[k] })
                   = Cardinality({ j \in 1..Len(q) : q[j] = q[k] })
            /\ route.result.total_distance_meters
                 = LegSum(route.start_location, w) \div UnitsPerMetre
            /\ q = << >> => /\ w = << >>
                            /\ route.result.total_distance_meters = 0
                            /\ route.result.estimated_duration_minutes = 0

\* a route over three different interventions that visits them in another
\* order than the input lists them
C8_Witness ==
    /\ route.called
    /\ Len(route.result.waypoints) = 3
    /\ Cardinality({ route.interventions[k] : k \in 1..3 }) = 3
    /\ \E k \in 1..3 : InterventionOf(route.result.waypoints[k]) # route.interventions[k]
    /\ route.result.total_distance_meters > 0

\* the interventions of q whose priority has rank r, in the order of q
OfRank(q, r) == SelectSeq(q, LAMBDA x : priority_order(x.priority) = r)

\* the list optimize_route iterates over, as the claim describes it
IterationList(q, prioritize_urgent) ==
    IF prioritize_urgent THEN OfRank(q, 0) \o OfRank(q, 1) \o OfRank(q, 2) \o OfRank(q, 3)
    ELSE q

\* w visits `remaining` from `location`, every waypoint being the first of
\* the nearest of what was left
RECURSIVE NearestFirstFrom(_, _, _)
NearestFirstFrom(location, remaining, w) ==
    IF w = << >> THEN remaining = << >>
    ELSE \E i \in 1..Len(remaining) :
           LET dist(k) == _calculate_distance(location, <<remaining[k].lat, remaining[k].lon>>)
           IN  /\ InterventionOf(w[1]) = remaining[i]
               /\ \A j \in 1..Len(remaining) : dist(i) <= dist(j)
               /\ \A j \in 1..(i - 1) : dist(j) > dist(i)
               /\ NearestFirstFrom(<<w[1].lat, w[1].lon>>,
                                   SubSeq(remaining, 1, i - 1)
                                     \o SubSeq(remaining, i + 1, Len(remaining)),
                                   SubSeq(w, 2, Len(w)))

\* C21: every waypoint of a route is a nearest remaining task of the current
\* position, and among equally near tasks the earliest of the iteration list:
\* the input stably sorted by priority rank (urgent, high, medium, then low
\* and unknown) when prioritize_urgent is set, the input order otherwise.
C21_NearestRemainingFirst ==
    route.called =>
        NearestFirstFrom(route.start_location,
                         IterationList(route.interventions, route.prioritize_urgent),
                         route.result.waypoints)

\* two tasks at one place, the medium one first in the input: the urgent one
\* is visited first with prioritize_urgent
C21_Witness ==
    /\ route.called
    /\ route.prioritize_urgent
    /\ Len(route.interventions) = 3
    /\ \E i, j \in 1..3 :
         /\ i < j
         /\ route.interventions[i].lat = route.interventions[j].lat
         /\ route.interventions[i].lon = route.interventions[j].lon
         /\ route.interventions[i].priority = "medium"
         /\ route.interventions[j].priority = "urgent"
         /\ \E k \in 1..2 :
              /\ InterventionOf(route.result.waypoints[k]) = route.interventions[j]
              /\ InterventionOf(route.result.waypoints[k + 1]) = route.interventions[i]

(***************************************************************************)
(* -------------------- Multi-technician optimizer ----------------------- *)
(* The state of one assign_technicians call after KMeans.fit_predict: the  *)
(* clusters, their centers, and the position inside the two balancing      *)
(* loops.  Clusters and centers are sequences indexed 1..K (the code       *)
(* indexes them 0..K-1).                                                   *)
(***************************************************************************)

MaxAssignTasks == 3
MaxTechnicians == 3
\* size of a lopsided input: all interventions but one at one place
BulkTasks == 104

COUNT_ITERATIONS == 50
max_iterations_AsCountLoop == COUNT_ITERATIONS
max_iterations == 15
tolerance_minutes == 20
STALL_LIMIT == 3
\* float('inf')
Infinity == 1000000
\* np.linalg.norm is held in hundredths of a coordinate unit; a degree is
\* 444 coordinate units
NormScale == 100
NormPerDegree == 44400

\* the call's interventions are drawn from "a", "b" and "c"
AssignLists ==
    SeqsUpTo({ x \in Interventions : x.id \in {"a", "b", "c"} }, MaxAssignTasks)

RECURSIVE SumSeq(_)
SumSeq(q) == IF q = << >> THEN 0 ELSE q[1] + SumSeq(SubSeq(q, 2, Len(q)))

MaxOf(q) == CHOOSE x \in { q[k] : k \in 1..Len(q) } : \A k \in 1..Len(q) : q[k] <= x
MinOf(q) == CHOOSE x \in { q[k] : k \in 1..Len(q) } : \A k \in 1..Len(q) : q[k] >= x
\* list.index(x)
IndexOf(q, x) == CHOOSE i \in 1..Len(q) : q[i] = x /\ \A j \in 1..(i - 1) : q[j] # x

\* the interventions labelled i, in input order
RECURSIVE Labelled(_, _, _)
Labelled(interventions, labels, i) ==
    IF interventions = << >> THEN << >>
    ELSE LET n == Len(interventions)
             front == Labelled(SubSeq(interventions, 1, n - 1), labels, i)
         IN  IF labels[n] = i THEN Append(front, interventions[n]) ELSE front

\* the mean position of a non-empty cluster, to the coordinate unit
Centroid(cluster) ==
    << SumSeq([k \in 1..Len(cluster) |-> cluster[k].lat]) \div Len(cluster),
       SumSeq([k \in 1..Len(cluster) |-> cluster[k].lon]) \div Len(cluster) >>

\* np.linalg.norm(coord - center)
NormOf == [d2 \in 0..MaxSquareDistance |-> ISqrt(d2 * NormScale * NormScale)]

norm(coord, center) ==
    NormOf[(coord[1] - center[1]) ^ 2 + (coord[2] - center[2]) ^ 2]

\* the outcomes of a labelling: the center of a label is the mean of its
\* members, and the position of some intervention when it has no member
CentersOf(interventions, clusters) ==
    LET empties == { i \in 1..Len(clusters) : clusters[i] = << >> }
    IN  { [i \in 1..Len(clusters) |->
              IF i \in empties
              THEN <<interventions[seeds[i]].lat, interventions[seeds[i]].lon>>
              ELSE Centroid(clusters[i])] :
            seeds \in [empties -> 1..Len(interventions)] }

\* kmeans.fit_predict / kmeans.cluster_centers_: a labelling of the
\* interventions with the K labels in which no intervention is nearer to
\* another center than to the center of its own label, and of several labels
\* with the same center only the lowest has members (argmin)
KMeansOutcomes(interventions, K) ==
    UNION { { [clusters |-> [i \in 1..K |-> Labelled(interventions, labels, i)],
               centers |-> centers] :
               centers \in { c \in CentersOf(interventions,
                                            [i \in 1..K |-> Labelled(interventions, labels, i)]) :
                               \A k \in 1..Len(interventions), j \in 1..K :
                                   /\ norm(<<interventions[k].lat, interventions[k].lon>>,
                                           c[labels[k]])
                                        <= norm(<<interventions[k].lat, interventions[k].lon>>,
                                                c[j])
                                   /\ (c[j] = c[labels[k]] => labels[k] <= j) } } :
            labels \in [1..Len(interventions) -> 1..K] }

\* BulkTasks - 1 interventions at one place and one 15 km away, K = 2: the
\* labelling follows the two places
BulkInterventions ==
    [k \in 1..BulkTasks |-> IF k = BulkTasks THEN Intervention("b", 60, 0, "urgent")
                            ELSE Intervention("a", 0, 0, "low")]
BulkOutcome ==
    [clusters |-> << SubSeq(BulkInterventions, 1, BulkTasks - 1),
                     << BulkInterventions[BulkTasks] >> >>,
     centers |-> << <<0, 0>>, <<60, 0>> >>]

\* Four interventions, three of them 15 km from the fourth, K = 2, labelled by
\* place: the time balancing moves one intervention to and fro
OscillatingOutcome ==
    [clusters |-> << << Intervention("a", 0, 0, "low"), Intervention("c", 0, 24, "low"),
                        Intervention("c", 0, 24, "low") >>,
                     << Intervention("b", 60, 0, "urgent") >> >>,
     centers |-> << <<0, 16>>, <<60, 0>> >>]

\* The locals of a balancing loop.  least_diff and count_least record the
\* least imbalance a loop has evaluated, ended and count_ended how it was left.
NewLoop ==
    [iteration |-> 0, previous_time_diff |-> Infinity, no_improvement_count |-> 0,
     tech_times |-> << >>, evaluations |-> 0, transfers |-> 0,
     least_diff |-> Infinity, ended |-> "no", count_least |-> Infinity,
     count_ended |-> "no"]

NoAssignment ==
    [start_location |-> <<0, 0>>, technician_names |-> << >>,
     technician_assignments |-> << >>, total_technicians |-> 0, total_interventions |-> 0]

AssignIdleInit ==
    /\ call_interventions = << >>
    /\ cluster_centers = << >>
    /\ balanced_clusters = << >>
    /\ count_balanced = << >>
    /\ pc = "idle"
    /\ loop = NewLoop
    /\ num_technicians = 0
    /\ assignment = NoAssignment

\* actual_num_technicians = min(num_technicians, len(interventions))
actual_num_technicians(requested, interventions) ==
    IF requested <= Len(interventions) THEN requested ELSE Len(interventions)

\* the call has clamped the number of clusters and run KMeans
AssignInit ==
    /\ \/ /\ call_interventions \in AssignLists \ { << >> }
          /\ num_technicians \in 1..MaxTechnicians
          /\ \E o \in KMeansOutcomes(call_interventions,
                                     actual_num_technicians(num_technicians,
                                                            call_interventions)) :
               /\ balanced_clusters = o.clusters
               /\ cluster_centers = o.centers
       \/ /\ call_interventions = BulkInterventions
          /\ num_technicians = 2
          /\ balanced_clusters = BulkOutcome.clusters
          /\ cluster_centers = BulkOutcome.centers
       \/ /\ call_interventions
                = OscillatingOutcome.clusters[1] \o OscillatingOutcome.clusters[2]
          /\ num_technicians = 2
          /\ balanced_clusters = OscillatingOutcome.clusters
          /\ cluster_centers = OscillatingOutcome.centers
    /\ assignment = NoAssignment
    /\ count_balanced = << >>
    /\ pc = "count_balance"
    /\ loop = NewLoop

\* the first intervention of a cluster with the least key (strict < keeps the first)
FirstLeast(cluster, keys) ==
    LET least == CHOOSE x \in { keys[k] : k \in 1..Len(cluster) } :
                     \A k \in 1..Len(cluster) : x <= keys[k]
    IN  cluster[CHOOSE i \in 1..Len(cluster) :
                    /\ keys[i] = least
                    /\ \A j \in 1..(i - 1) : keys[j] # least]

Transfer(clusters, from_tech, to_tech, interv) ==
    [i \in 1..Len(clusters) |->
        IF i = from_tech THEN RemoveFirst(clusters[i], interv)
        ELSE IF i = to_tech THEN Append(clusters[i], interv)
        ELSE clusters[i]]

Counts(clusters) == [i \in 1..Len(clusters) |-> Len(clusters[i])]

\* One iteration of the for loop of _balance_intervention_count; the loop is
\* left on the break or when range(50) is exhausted, and _rebalance_workload
\* starts on what it returns.
CountBalanceIteration ==
    /\ pc = "count_balance"
    /\ LET counts == Counts(balanced_clusters)
           max_tech == IndexOf(counts, MaxOf(counts))
           min_tech == IndexOf(counts, MinOf(counts))
           dist(interv) == norm(<<interv.lat, interv.lon>>, cluster_centers[min_tech])
           best_transfer ==
               FirstLeast(balanced_clusters[max_tech],
                          [k \in 1..Len(balanced_clusters[max_tech]) |->
                              dist(balanced_clusters[max_tech][k])])
           moved == Transfer(balanced_clusters, max_tech, min_tech, best_transfer)
           diff == MaxOf(counts) - MinOf(counts)
           least == IF diff < loop.count_least THEN diff ELSE loop.count_least
       IN  IF diff <= 1
           THEN /\ balanced_clusters' = balanced_clusters
                /\ count_balanced' = balanced_clusters
                /\ pc' = "time_balance"
                /\ loop' = [NewLoop EXCEPT !.count_least = least,
                                           !.count_ended = "balanced"]
           ELSE /\ balanced_clusters' = moved
                /\ IF loop.iteration + 1 >= COUNT_ITERATIONS
                   THEN /\ count_balanced' = moved
                        /\ pc' = "time_balance"
                        /\ loop' = [NewLoop EXCEPT !.count_least = least,
                                                   !.count_ended = "exhausted"]
                   ELSE /\ count_balanced' = count_balanced
                        /\ pc' = pc
                        /\ loop' = [loop EXCEPT !.iteration = @ + 1,
                                                !.count_least = least]
    /\ UNCHANGED <<call_interventions, cluster_centers, num_technicians, assignment>>
    /\ TrackerIdle /\ BackfillIdle /\ UNCHANGED <<routeVars, extraVars>>

urgency_penalty(interv) == IF interv.priority = "urgent" THEN 1000 * NormPerDegree ELSE 0

\* tech_times of one iteration: 0 for an empty cluster, else the duration of its
\* route from the cluster center
RECURSIVE TechTimesFrom(_, _, _)
TechTimesFrom(clusters, centers, tech_id) ==
    IF tech_id > Len(clusters) THEN << >>
    ELSE << IF clusters[tech_id] = << >> THEN 0
            ELSE optimize_route(clusters[tech_id], centers[tech_id],
                                TRUE).estimated_duration_minutes >>
           \o TechTimesFrom(clusters, centers, tech_id + 1)

TechTimes(clusters, centers) == TechTimesFrom(clusters, centers, 1)

\* One iteration of the for loop of _rebalance_workload: the routes of all
\* clusters are evaluated, then the loop is left (balanced, stuck, nothing to
\* move) or one intervention moves from the longest to the shortest route.
TimeBalanceIteration ==
    /\ pc = "time_balance"
    /\ LET tech_times == TechTimes(balanced_clusters, cluster_centers)
           max_time == MaxOf(tech_times)
           positive == SelectSeq(tech_times, LAMBDA t : t > 0)
           min_time == IF positive # << >> THEN MinOf(positive) ELSE 0
           time_diff == max_time - min_time
           worse == time_diff >= loop.previous_time_diff
           count == IF worse THEN loop.no_improvement_count + 1 ELSE 0
           overloaded_tech == IndexOf(tech_times, max_time)
           underloaded_tech == IndexOf(tech_times, min_time)
           score(interv) ==
               norm(<<interv.lat, interv.lon>>, cluster_centers[underloaded_tech])
                 - norm(<<interv.lat, interv.lon>>, cluster_centers[overloaded_tech])
                 + urgency_penalty(interv)
           best_transfer ==
               FirstLeast(balanced_clusters[overloaded_tech],
                          [k \in 1..Len(balanced_clusters[overloaded_tech]) |->
                              score(balanced_clusters[overloaded_tech][k])])
           evaluated ==
               [loop EXCEPT !.tech_times = tech_times, !.evaluations = @ + 1,
                            !.least_diff = IF time_diff < @ THEN time_diff ELSE @]
           exhausted == loop.iteration + 1 >= max_iterations
       IN  IF time_diff <= tolerance_minutes
           THEN /\ pc' = "done"
                /\ loop' = [evaluated EXCEPT !.ended = "converged"]
                /\ UNCHANGED balanced_clusters
           ELSE IF worse /\ count >= STALL_LIMIT
           THEN /\ pc' = "done"
                /\ loop' = [evaluated EXCEPT !.no_improvement_count = count,
                                             !.ended = "stalled"]
                /\ UNCHANGED balanced_clusters
           ELSE IF balanced_clusters[overloaded_tech] = << >>
           THEN /\ pc' = "done"
                /\ loop' = [evaluated EXCEPT !.no_improvement_count = count,
                                             !.previous_time_diff = time_diff,
                                             !.ended = "nothing to move"]
                /\ UNCHANGED balanced_clusters
           ELSE /\ balanced_clusters' =
                      Transfer(balanced_clusters, overloaded_tech, underloaded_tech,
                               best_transfer)
                /\ loop' = [evaluated EXCEPT !.no_improvement_count = count,
                                             !.previous_time_diff = time_diff,
                                             !.transfers = @ + 1,
                                             !.iteration = @ + 1,
                                             !.ended = IF exhausted THEN "exhausted"
                                                                    ELSE @]
                /\ pc' = IF exhausted THEN "done" ELSE pc
    /\ UNCHANGED <<call_interventions, cluster_centers, count_balanced, num_technicians,
                   assignment>>
    /\ TrackerIdle /\ BackfillIdle /\ UNCHANGED <<routeVars, extraVars>>

\* A technician name: the n-th default name "Technicien n", or the n-th of the
\* names the caller supplied.
DefaultNames(K) == [i \in 1..K |-> <<"Technicien", i>>]

\* technician_names: none, one name, or a name for every requested technician
SuppliedNames ==
    { << >> } \cup { [i \in 1..n |-> <<"supplied", i>>] : n \in {1, MaxTechnicians} }

\* if not technician_names or len(technician_names) < actual_num_technicians
EffectiveNames(technician_names, K) ==
    IF technician_names = << >> \/ Len(technician_names) < K
    THEN DefaultNames(K) ELSE technician_names

UrgentCount(cluster) == Len(SelectSeq(cluster, LAMBDA interv : interv.priority = "urgent"))

\* one entry of cluster_distances; priority_score = urgent_count * 100 - distance
\* with the distance in km
ClusterInfo(i, clusters, centers, start_location) ==
    LET distance == _calculate_distance(start_location, centers[i])
    IN  [cluster_id |-> i, distance |-> distance,
         urgent_count |-> UrgentCount(clusters[i]),
         total_count |-> Len(clusters[i]),
         priority_score |-> UrgentCount(clusters[i]) * 100 * UnitsPerKm - distance]

\* cluster_distances.sort(key=priority_score, reverse=True): stable, descending
RECURSIVE InsertByScore(_, _)
InsertByScore(t, x) ==
    IF t = << >> THEN <<x>>
    ELSE IF t[Len(t)].priority_score >= x.priority_score
         THEN Append(t, x)
         ELSE Append(InsertByScore(SubSeq(t, 1, Len(t) - 1), x), t[Len(t)])

RECURSIVE SortByScore(_)
SortByScore(q) ==
    IF q = << >> THEN << >>
    ELSE InsertByScore(SortByScore(SubSeq(q, 1, Len(q) - 1)), q[Len(q)])

_find_optimal_start_GlobalStart(interventions, global_start) == global_start

_find_optimal_start(interventions, global_start) ==
    IF interventions = << >> THEN global_start
    ELSE LET closest == interventions[NearestIndex(interventions, global_start)]
         IN  <<closest.lat, closest.lon>>

\* the loop over the sorted cluster_distances; idx counts every entry, also
\* the entries of empty clusters that are skipped
RECURSIVE AssignmentLoop(_, _, _, _, _)
AssignmentLoop(cluster_distances, idx, clusters, technician_names, start_location) ==
    IF idx > Len(cluster_distances) THEN << >>
    ELSE LET cluster_info == cluster_distances[idx]
             cluster_interventions == clusters[cluster_info.cluster_id]
             cluster_start == _find_optimal_start(cluster_interventions, start_location)
             route_of == optimize_route(cluster_interventions, cluster_start, TRUE)
             rest == AssignmentLoop(cluster_distances, idx + 1, clusters,
                                    technician_names, start_location)
         IN  IF cluster_interventions = << >> THEN rest
             ELSE << [technician_id |-> idx,
                      technician_name |-> technician_names[idx],
                      cluster_id |-> cluster_info.cluster_id,
                      num_interventions |-> Len(cluster_interventions),
                      urgent_count |-> cluster_info.urgent_count,
                      route |-> route_of,
                      start_location |-> cluster_start,
                      estimated_duration_minutes |-> route_of.estimated_duration_minutes,
                      priority_score |-> cluster_info.priority_score] >> \o rest

\* The rest of assign_technicians after the two balancing loops: the clusters
\* are scored and sorted, and every non-empty cluster gets a technician and a
\* route.  start_location and technician_names are first read here.
AssignRoutes ==
    /\ pc = "done"
    /\ \E start_location \in StartLocations, technician_names \in SuppliedNames :
         LET K == Len(balanced_clusters)
             cluster_distances ==
                 SortByScore([i \in 1..K |->
                     ClusterInfo(i, balanced_clusters, cluster_centers, start_location)])
         IN  assignment' =
                 [start_location |-> start_location,
                  technician_names |-> technician_names,
                  technician_assignments |->
                      AssignmentLoop(cluster_distances, 1, balanced_clusters,
                                     EffectiveNames(technician_names, K), start_location),
                  total_technicians |-> K,
                  total_interventions |-> Len(call_interventions)]
    /\ pc' = "returned"
    /\ UNCHANGED <<call_interventions, cluster_centers, balanced_clusters, count_balanced,
                   loop, num_technicians>>
    /\ TrackerIdle /\ BackfillIdle /\ UNCHANGED <<routeVars, extraVars>>

\* all interventions of all clusters, cluster after cluster
RECURSIVE Flatten(_)
Flatten(clusters) ==
    IF clusters = << >> THEN << >>
    ELSE clusters[1] \o Flatten(SubSeq(clusters, 2, Len(clusters)))

\* q and r hold the same elements, each as often
SameBag(q, r) ==
    /\ Len(q) = Len(r)
    /\ \A x \in { q[k] : k \in 1..Len(q) } :
         Cardinality({ k \in 1..Len(q) : q[k] = x })
           = Cardinality({ k \in 1..Len(r) : r[k] = x })

\* C9: the clusters _balance_intervention_count returns differ in size by at
\* most one, whatever the clusters it was given.
C9_CountBalancedWithinOne ==
    pc \in {"time_balance", "done"} =>
        MaxOf(Counts(count_balanced)) - MinOf(Counts(count_balanced)) <= 1

\* C10: _rebalance_workload evaluates the routes at most 15 times and moves at
\* most 15 interventions; every iteration that does not leave the loop
\* advances the loop counter, which stays below 15 inside the loop; the
\* clusters always hold exactly the interventions of the call.
C10_TimeBalancingBounded ==
    /\ [](pc \in {"time_balance", "done"} =>
             /\ loop.evaluations <= 15
             /\ loop.transfers <= 15
             /\ loop.iteration <= 15
             /\ pc = "time_balance" => loop.iteration < 15
             /\ SameBag(Flatten(balanced_clusters), call_interventions))
    /\ [][pc = "time_balance" =>
             \/ pc' = "done"
             \/ pc' = "time_balance" /\ loop'.iteration = loop.iteration + 1]_vars

\* the loop has used its whole budget: 15 evaluations, 15 transfers
C10_Witness ==
    /\ pc = "done"
    /\ loop.evaluations = 15
    /\ loop.transfers = 15

\* the position of the first task nearest to a location
NearestTaskPosition(tasks, location) ==
    LET k == CHOOSE i \in 1..Len(tasks) :
                 /\ \A j \in 1..Len(tasks) :
                      _calculate_distance(location, <<tasks[i].lat, tasks[i].lon>>)
                        <= _calculate_distance(location, <<tasks[j].lat, tasks[j].lon>>)
                 /\ \A j \in 1..(i - 1) :
                      _calculate_distance(location, <<tasks[j].lat, tasks[j].lon>>)
                        > _calculate_distance(location, <<tasks[i].lat, tasks[i].lon>>)
    IN  <<tasks[k].lat, tasks[k].lon>>

\* C11: a call with num_technicians = 1 returns one assignment; it holds all
\* interventions of the call and its route is the route optimize_route builds
\* for them from the position of the intervention nearest to start_location,
\* with prioritize_urgent set.
C11_SingleTechnicianIsOneRoute ==
    (pc = "returned" /\ num_technicians = 1) =>
        /\ Len(assignment.technician_assignments) = 1
        /\ assignment.technician_assignments[1].num_interventions = Len(call_interventions)
        /\ assignment.technician_assignments[1].route
             = optimize_route(call_interventions,
                              NearestTaskPosition(call_interventions,
                                                  assignment.start_location),
                              TRUE)

\* a call for one technician over three different interventions has returned
C11_Witness ==
    /\ pc = "returned"
    /\ num_technicians = 1
    /\ Len(call_interventions) = 3
    /\ Cardinality({ call_interventions[k] : k \in 1..3 }) = 3

\* C12: a call returns min(num_technicians, number of interventions)
\* assignments, none of them empty, and total_technicians is their number.
C12_ClampedNonEmptyAssignments ==
    pc = "returned" =>
        /\ Len(assignment.technician_assignments)
             = actual_num_technicians(num_technicians, call_interventions)
        /\ \A k \in 1..Len(assignment.technician_assignments) :
             assignment.technician_assignments[k].num_interventions > 0
        /\ assignment.total_technicians = Len(assignment.technician_assignments)

\* the dispatch score of a returned assignment, from the territory it carries:
\* 100 per urgent intervention minus the distance in km from start_location
\* to the mean position of the territory
DispatchScore(a) ==
    UrgentCount(balanced_clusters[a.cluster_id]) * 100 * UnitsPerKm
      - _calculate_distance(assignment.start_location,
                            Centroid(balanced_clusters[a.cluster_id]))

\* the name the i-th assignment is to carry
ExpectedName(i) ==
    IF i <= Len(assignment.technician_names)
    THEN assignment.technician_names[i] ELSE <<"Technicien", i>>

C13_Ordered ==
    \A i, j \in 1..Len(assignment.technician_assignments) :
        i < j => DispatchScore(assignment.technician_assignments[i])
                   >= DispatchScore(assignment.technician_assignments[j])

C13_Named ==
    \A i \in 1..Len(assignment.technician_assignments) :
        assignment.technician_assignments[i].technician_name = ExpectedName(i)

\* C13: the returned assignments are in non-increasing order of dispatch
\* score, and the i-th of them carries the i-th supplied name, or the i-th
\* default name when no name is supplied.
C13_ScoreOrderAndNames ==
    pc = "returned" => C13_Ordered /\ C13_Named

\* max_time - min_time of _rebalance_workload for a partition: the longest
\* route duration minus the shortest of the non-empty clusters
TimeImbalance(clusters, centers) ==
    LET tech_times == TechTimes(clusters, centers)
        positive == SelectSeq(tech_times, LAMBDA t : t > 0)
    IN  MaxOf(tech_times) - (IF positive # << >> THEN MinOf(positive) ELSE 0)

\* C14: a balancing loop that ends by exhausting its iterations or by stall
\* detection returns a partition whose imbalance (longest minus shortest
\* duration for _rebalance_workload, largest minus smallest size for
\* _balance_intervention_count) is no larger than the imbalance of any
\* partition the loop evaluated.
C14_ReturnsBestStateReached ==
    pc \in {"done", "returned"} =>
        /\ loop.ended \in {"exhausted", "stalled"} =>
               TimeImbalance(balanced_clusters, cluster_centers) <= loop.least_diff
        /\ loop.count_ended = "exhausted" =>
               MaxOf(Counts(count_balanced)) - MinOf(Counts(count_balanced))
                   <= loop.count_least

\* the clauses of C22 about the counter and the stop, for one evaluated
\* iteration that is not within tolerance
StallCounted ==
    LET stalls == TimeImbalance(balanced_clusters, cluster_centers) >= loop.previous_time_diff
    IN  /\ loop'.no_improvement_count
             = IF stalls THEN loop.no_improvement_count + 1 ELSE 0
        /\ loop'.ended = "stalled" <=> (stalls /\ loop.no_improvement_count + 1 = 3)
        /\ loop'.ended = "stalled" => pc' = "done"

\* the clause of C22 about transfers: nothing moves on a stalled iteration
StallTransfersNothing ==
    TimeImbalance(balanced_clusters, cluster_centers) >= loop.previous_time_diff
        => balanced_clusters' = balanced_clusters

\* C22: in Step C the stall counter counts the consecutive evaluated
\* iterations whose imbalance did not improve on that of the previous
\* iteration, an improving iteration resets it to zero, the loop stops
\* exactly at the third consecutive stall, and an iteration that stalls
\* transfers no task.
C22_StallDetection ==
    [][(pc = "time_balance"
          /\ TimeImbalance(balanced_clusters, cluster_centers) > tolerance_minutes)
         => (StallCounted /\ StallTransfersNothing)]_vars

\* distance to the receiving center minus distance to the giving center, plus
\* 1000 degrees for an urgent task
TransferScore(interv, giving, receiving) ==
    norm(<<interv.lat, interv.lon>>, cluster_centers[receiving])
      - norm(<<interv.lat, interv.lon>>, cluster_centers[giving])
      + (IF interv.priority = "urgent" THEN 1000 * NormPerDegree ELSE 0)

\* C23: a Step C iteration that transfers moves exactly one task, from the
\* cluster with the largest estimated duration to the cluster with the
\* smallest estimated duration of all K clusters, and the task moved is one of
\* the giving cluster with the least score (distance to the receiving center
\* minus distance to the giving center, plus 1000 when the task is urgent).
C23_TransferBusiestToLeastBusy ==
    [][(pc = "time_balance" /\ balanced_clusters' # balanced_clusters) =>
          LET tech_times == TechTimes(balanced_clusters, cluster_centers)
              K == Len(balanced_clusters)
          IN  \E giving, receiving \in 1..K :
                /\ \A i \in 1..K : tech_times[i] <= tech_times[giving]
                /\ \A i \in 1..K : tech_times[receiving] <= tech_times[i]
                /\ \E k \in 1..Len(balanced_clusters[giving]) :
                     /\ \A j \in 1..Len(balanced_clusters[giving]) :
                          TransferScore(balanced_clusters[giving][k], giving, receiving)
                            <= TransferScore(balanced_clusters[giving][j], giving, receiving)
                     /\ balanced_clusters'
                          = Transfer(balanced_clusters, giving, receiving,
                                     balanced_clusters[giving][k])]_vars

\* the tasks on the waypoints of all returned routes, route after route
RoutedTasks ==
    LET ta == assignment.technician_assignments
    IN  Flatten([i \in 1..Len(ta) |->
                    [k \in 1..Len(ta[i].route.waypoints) |->
                        InterventionOf(ta[i].route.waypoints[k])]])

\* C26: after clustering, after every transfer of Step B and of Step C and in
\* the final result, the clusters together hold every input task exactly as
\* often as the input does, and the waypoints of all returned routes together
\* hold every input task exactly as often as the input does.
C26_TaskConservation ==
    /\ pc \in {"count_balance", "time_balance", "done", "returned"} =>
           SameBag(Flatten(balanced_clusters), call_interventions)
    /\ pc \in {"time_balance", "done", "returned"} =>
           SameBag(Flatten(count_balanced), call_interventions)
    /\ pc = "returned" => SameBag(RoutedTasks, call_interventions)

\* a call on a list with two identical tasks has returned after a transfer
\* in Step C, with more than one route
C26_Witness ==
    /\ pc = "returned"
    /\ \E i, j \in 1..Len(call_interventions) :
         i # j /\ call_interventions[i] = call_interventions[j]
    /\ loop.transfers >= 1
    /\ Len(assignment.technician_assignments) >= 2

\* C27: the count balance that Step B established survives Step C: in the
\* returned result the numbers of tasks of any two technicians differ by at
\* most one.
C27_CountBalanceSurvives ==
    (pc = "returned"
       /\ MaxOf(Counts(count_balanced)) - MinOf(Counts(count_balanced)) <= 1) =>
        \A i, j \in 1..Len(assignment.technician_assignments) :
            assignment.technician_assignments[i].num_interventions
              - assignment.technician_assignments[j].num_interventions <= 1

(***************************************************************************)
(* ------------- Two optimize_route calls on one service ----------------- *)
(* Two invocations of optimize_route on the same RouteOptimizerService,    *)
(* interleaved statement by statement.  The service object has no          *)
(* attribute (__init__ is `pass`), so what the invocations can share is    *)
(* the list objects they are handed.  A list reference is the index of a   *)
(* caller's list object, or 0 for a list object the invocation created.    *)
(***************************************************************************)

\* the list the second caller holds when it does not pass the first caller's
SecondList == << Intervention("c", 0, 24, "low"), Intervention("b", 60, 0, "urgent") >>

\* a list with a task whose "lat" and "lon" are None
GappyList ==
    << Intervention("c", 0, 24, "low"), Intervention("g", NoCoord, NoCoord, "medium"),
       Intervention("b", 60, 0, "urgent") >>

\* i.get("lat") or i.get("lon") is None
MissingCoordinates(interv) == interv.lat = NoCoord \/ interv.lon = NoCoord

NoCalls == [caller_lists |-> << >>, frames |-> << >>, interleaved |-> FALSE]

CallsIdleInit == calls = NoCalls

\* an invocation that has bound its parameters and run no statement yet
Frame(list, given, start_location, prioritize_urgent) ==
    [pc |-> "called", list |-> list, given |-> given,
     start_location |-> start_location, prioritize_urgent |-> prioritize_urgent,
     remaining_is |-> 0,
     st |-> [waypoints |-> << >>, total_distance |-> 0,
             current_location |-> start_location, remaining |-> << >>],
     result |-> RouteResult([waypoints |-> << >>, total_distance |-> 0])]

CallsInit ==
    \E first \in AssignLists, own \in {SecondList, GappyList}, s1 \in StartLocations,
       p1 \in BOOLEAN :
      \E second \in { Frame(1, first, s2, p2) : s2 \in StartLocations, p2 \in BOOLEAN }
                      \cup { Frame(2, own, <<30, 0>>, TRUE) } :
         calls = [caller_lists |-> <<first, own>>,
                  frames |-> <<Frame(1, first, s1, p1), second>>,
                  interleaved |-> FALSE]

list_copy_SameObject(ref) == ref

\* sorted_interventions.copy(): a new list object
list_copy(ref) == 0

\* the list object an invocation's `remaining` refers to
WorkingList(c, p) ==
    IF c.frames[p].remaining_is = 0 THEN c.frames[p].st.remaining
    ELSE c.caller_lists[c.frames[p].remaining_is]

\* the statements before the while loop: sorted() makes a new list, the else
\* branch binds sorted_interventions to the caller's list object
RouteEnter(p) ==
    /\ p \in 1..Len(calls.frames)
    /\ calls.frames[p].pc = "called"
    /\ LET f == calls.frames[p]
           sorted_ref == IF f.prioritize_urgent THEN 0 ELSE f.list
           sorted_interventions ==
               IF f.prioritize_urgent THEN sorted(calls.caller_lists[f.list])
               ELSE calls.caller_lists[f.list]
           remaining_is == list_copy(sorted_ref)
       IN  calls' = [calls EXCEPT
                       !.frames[p].pc = "loop",
                       !.frames[p].remaining_is = remaining_is,
                       !.frames[p].st.remaining =
                           IF remaining_is = 0 THEN sorted_interventions ELSE << >>]
    /\ TrackerIdle /\ BackfillIdle /\ UNCHANGED <<routeVars, assignVars, poll, auth>>

\* one iteration of the while loop; min() computes the distance to every
\* element of remaining, and radians(None) raises TypeError;
\* remaining.remove(nearest) changes the list object `remaining` refers to
RouteIterate(p) ==
    /\ p \in 1..Len(calls.frames)
    /\ calls.frames[p].pc = "loop"
    /\ WorkingList(calls, p) # << >>
    /\ LET f == calls.frames[p]
           remaining == WorkingList(calls, p)
           st == RouteLoopStep([f.st EXCEPT !.remaining = remaining])
           other == calls.frames[3 - p]
           kept == [calls EXCEPT
                      !.frames[p].st = [st EXCEPT !.remaining =
                                           IF f.remaining_is = 0 THEN @ ELSE << >>],
                      !.interleaved = @ \/ (other.pc = "loop" /\ other.st.waypoints # << >>)]
       IN  calls' = IF \E k \in 1..Len(remaining) : MissingCoordinates(remaining[k])
                    THEN [calls EXCEPT !.frames[p].pc = "raised"]
                    ELSE IF f.remaining_is = 0 THEN kept
                    ELSE [kept EXCEPT !.caller_lists[f.remaining_is] = st.remaining]
    /\ TrackerIdle /\ BackfillIdle /\ UNCHANGED <<routeVars, assignVars, poll, auth>>

\* the statements after the while loop
RouteExit(p) ==
    /\ p \in 1..Len(calls.frames)
    /\ calls.frames[p].pc = "loop"
    /\ WorkingList(calls, p) = << >>
    /\ calls' = [calls EXCEPT !.frames[p].pc = "returned",
                              !.frames[p].result = RouteResult(calls.frames[p].st)]
    /\ TrackerIdle /\ BackfillIdle /\ UNCHANGED <<routeVars, assignVars, poll, auth>>

C18_MissingCoordinatesSkipped ==
    \A p \in 1..Len(calls.frames) :
        LET f == calls.frames[p]
            located == SelectSeq(f.given, LAMBDA i : ~ MissingCoordinates(i))
        IN  /\ f.pc # "raised"
            /\ f.pc = "returned" =>
                   f.result = optimize_route(located, f.start_location,
                                             f.prioritize_urgent)

PollReadings ==
    { Reading(1, 1, "S1", FALSE), Reading(4, 1, "S1", FALSE),
      Reading(1, 1, NoStation, FALSE) }

\* free_bike_status feeds: no bike, or a reading of the one bike followed here
PollBikeIds == {"b1"}
Feeds == UNION { [S -> PollReadings] : S \in SUBSET PollBikeIds }

DbFaults == {"none", "query", "movement_commit", "snapshot_commit"}

\* repo.get_all(): the rows of the bikes table (returned here in key order)
RosterOf(table) ==
    LET rows == <<"b1", "b2">>
        kept == SelectSeq(rows, LAMBDA b : b \in DOMAIN table)
    IN  [i \in 1..Len(kept) |-> Bike(kept[i], table[kept[i]])]

\* repo.upsert of every bike of the feed
Upsert(table, feed) ==
    [b \in (DOMAIN table) \cup (DOMAIN feed) |->
        IF b \in DOMAIN feed THEN feed[b] ELSE table[b]]

\* the latest snapshot per bike once the rows `snapshots` are committed
RECURSIVE LatestAfter(_, _)
LatestAfter(latest, snapshots) ==
    IF snapshots = << >> THEN latest
    ELSE LatestAfter(MapPut(latest, snapshots[1].bike_id,
                            Reading(snapshots[1].lat, snapshots[1].lon,
                                    snapshots[1].station_id, snapshots[1].is_disabled)),
                     SubSeq(snapshots, 2, Len(snapshots)))

\* What a session keeps of the outcome r of track_movements_and_snapshot:
\* movements are committed by detect_and_record_movements, snapshots
\* afterwards by create_snapshots; a fault makes that statement raise.
SessionOutcome(r, cache, fault) ==
    LET failed(at, movements) ==
            [status |-> "DBError", failed_at |-> at, detected |-> r.detected,
             cache |-> IF at = "query" THEN cache ELSE r.cache,
             movements |-> movements, snapshots |-> << >>, movements_detected |-> -1]
    IN  IF fault = "query" /\ DOMAIN cache = {}
        THEN failed("query", << >>)
        ELSE IF r.status # "ok"
        THEN [status |-> r.status, failed_at |-> "logger", detected |-> r.detected,
              cache |-> r.cache, movements |-> << >>, snapshots |-> << >>,
              movements_detected |-> -1]
        ELSE IF fault = "movement_commit" /\ r.movements # << >>
        THEN failed("movement_commit", << >>)
        ELSE IF fault = "snapshot_commit" /\ r.snapshots # << >>
        THEN failed("snapshot_commit", r.movements)
        ELSE [status |-> "ok", failed_at |-> "none", detected |-> r.detected,
              cache |-> r.cache, movements |-> r.movements, snapshots |-> r.snapshots,
              movements_detected |-> r.movements_detected]

\* track_movements_and_snapshot on a session: what it returns or raises and
\* which of its rows are committed
TrackOnSession(cache, table, latest, roster, fault) ==
    SessionOutcome(track_movements_and_snapshot(cache, table, latest, roster), cache, fault)

NoResult == [op |-> "none"]

NoCycle ==
    [op |-> "none", feed |-> EmptyMap, before |-> EmptyMap, status |-> "none",
     failed_at |-> "none", detected |-> {}, movements |-> << >>, snapshots |-> << >>,
     result |-> NoResult]

PollIdle ==
    [bikes |-> EmptyMap, latest |-> EmptyMap, cache |-> EmptyMap, last |-> NoCycle]

PollIdleInit == poll = PollIdle

\* the record of an operation and of what it left in the tables
Cycle(op, feed, t, result) ==
    [op |-> op, feed |-> feed, before |-> poll.latest, status |-> t.status,
     failed_at |-> t.failed_at, detected |-> t.detected, movements |-> t.movements,
     snapshots |-> t.snapshots, result |-> result]

\* what manual_data_refresh returns after tracking outcome t: a commit on a
\* session whose statement failed raises, which returns success False
RefreshResult(feed, t) ==
    IF t.status = "DBError"
    THEN [op |-> "refresh", success |-> FALSE]
    ELSE [op |-> "refresh", success |-> TRUE, bikes_updated |-> Cardinality(DOMAIN feed),
          movements_detected |-> IF t.status = "ok" THEN t.movements_detected ELSE 0]

\* what poll_free_bike_status returns after tracking outcome t
PollResult(feed, t) ==
    [op |-> "poll", status |-> "success", bikes_processed |-> Cardinality(DOMAIN feed),
     bikes_updated |-> 0]

\* A caller that keeps its tracker calls track_movements_and_snapshot with
\* the bikes of a feed.
TrackerInvocation ==
    /\ \E feed \in Feeds, fault \in DbFaults :
         \E t \in { TrackOnSession(poll.cache, poll.bikes, poll.latest, RosterOf(feed),
                                    fault) } :
             poll' = [poll EXCEPT !.cache = t.cache,
                                  !.latest = LatestAfter(@, t.snapshots),
                                  !.last = Cycle("track", feed, t, NoResult)]
    /\ TrackerIdle /\ BackfillIdle /\ UNCHANGED <<routeVars, assignVars, calls, auth>>

\* POST /manual-refresh: the bikes of the feed are upserted, a new tracker
\* runs on the same session, its exception is logged and dropped, and the
\* session is committed.
ManualRefresh ==
    /\ \E feed \in Feeds, fault \in DbFaults :
         \E table \in { Upsert(poll.bikes, feed) } :
         \E t \in { TrackOnSession(EmptyMap, table, poll.latest, RosterOf(table), fault) } :
             poll' = [poll EXCEPT
                          !.bikes = IF t.status # "DBError" \/ t.movements # << >>
                                    THEN table ELSE @,
                          !.latest = LatestAfter(@, t.snapshots),
                          !.last = Cycle("refresh", feed, t, RefreshResult(feed, t))]
    /\ TrackerIdle /\ BackfillIdle /\ UNCHANGED <<routeVars, assignVars, calls, auth>>

\* Celery task poll_free_bike_status: BikeRepository awaits the result of the
\* synchronous session, so every upsert raises TypeError and is logged; the
\* tracker then runs on a session of its own, rolled back when it raises, and
\* its exception is logged and dropped.
PollFreeBikeStatus ==
    /\ \E feed \in Feeds, fault \in DbFaults :
         \E t \in { TrackOnSession(EmptyMap, poll.bikes, poll.latest,
                                    RosterOf(poll.bikes), fault) } :
             poll' = [poll EXCEPT
                          !.latest = LatestAfter(@, t.snapshots),
                          !.last = Cycle("poll", feed, t, PollResult(feed, t))]
    /\ TrackerIdle /\ BackfillIdle /\ UNCHANGED <<routeVars, assignVars, calls, auth>>

ZeroMovements == [status |-> "ok", movements_detected |-> 0]

\* C17: the result a refresh or poll operation returns when movement tracking
\* failed differs from every result it returns when tracking succeeded with
\* zero movements.
C17_TrackingFailureDistinguishable ==
    (poll.last.op \in {"refresh", "poll"} /\ poll.last.status # "ok") =>
        poll.last.result \notin
            { RefreshResult(feed, ZeroMovements) : feed \in Feeds }
              \cup { PollResult(feed, ZeroMovements) : feed \in Feeds }

\* C20: in a cycle that stores the readings of the feed in the bikes table and
\* then tracks with a new tracker, a bike whose reading is more than 10 m
\* from, or at another station than, its latest committed snapshot gets a
\* movement row in this cycle.
C20_MovementAcrossCycles ==
    (poll.last.op = "refresh" /\ poll.last.failed_at \in {"none", "logger"}) =>
        \A b \in (DOMAIN poll.last.feed) \cap (DOMAIN poll.last.before) :
            LET prev == poll.last.before[b]
                curr == poll.last.feed[b]
            IN  MovementCondition(calculate_distance(prev.lat, prev.lon, curr.lat, curr.lon),
                                  prev.current_station_id, curr.current_station_id)
                  => \E k \in 1..Len(poll.last.movements) :
                         poll.last.movements[k].bike_id = b

(***************************************************************************)
(* Live detection and backfill on one database.  A poll cycle is one call  *)
(* of track_movements_and_snapshot on a kept tracker; the clock advances   *)
(* by one tick up to the detection and by one more up to the snapshots, so *)
(* a cycle ends at an even time and `hours` of a backfill request counts   *)
(* ticks.                                                                  *)
(***************************************************************************)

\* number of poll cycles explored
MaxCycles == 3

LiveReadings ==
    { Reading(1, 1, "S1", FALSE), Reading(3, 1, "S1", FALSE), Reading(4, 1, "S1", FALSE) }

LiveRosters ==
    { <<Bike("b1", r)>> : r \in LiveReadings }
    \cup { <<Bike("b1", r1), Bike("b2", r2)>> : r1 \in LiveReadings, r2 \in LiveReadings }

\* the bikes table when a tracker is first used: empty, or the row of b1
LiveTables == { EmptyMap, [b \in {"b1"} |-> Reading(1, 1, "S1", FALSE)] }

\* the result of the latest-snapshot query on table bike_snapshots
LatestSnapshots ==
    LET latest(b) == CHOOSE sn \in bike_snapshots :
                        /\ sn.bike_id = b
                        /\ \A o \in bike_snapshots : o.bike_id = b => o.time <= sn.time
    IN  [b \in { sn.bike_id : sn \in bike_snapshots } |->
            Reading(latest(b).lat, latest(b).lon, latest(b).station_id, latest(b).is_disabled)]

\* the row of a BikeMovement built at time t (detected_at=datetime.utcnow())
DetectedAt(m, t) ==
    [bike_id |-> m.bike_id,
     from_station_id |-> m.from_station_id, from_lat |-> m.from_lat, from_lon |-> m.from_lon,
     to_station_id |-> m.to_station_id, to_lat |-> m.to_lat, to_lon |-> m.to_lon,
     movement_type |-> m.movement_type, distance_meters |-> m.distance_meters,
     is_disabled |-> m.is_disabled, detected_at |-> t]

\* One poll cycle: detect_and_record_movements stamps and commits its
\* records, create_snapshots then stamps and commits the snapshots; a call
\* that raises leaves no row.
LiveCycle ==
    /\ now + 2 <= 2 * MaxCycles
    /\ \E bikes \in LiveRosters :
       \E table \in IF DOMAIN previous_positions = {} THEN LiveTables ELSE {EmptyMap} :
       \E r \in { track_movements_and_snapshot(
                      previous_positions, table,
                      IF DOMAIN previous_positions = {} THEN LatestSnapshots ELSE EmptyMap,
                      bikes) } :
          /\ previous_positions' = r.cache
          /\ last' = r
          /\ bike_movements' =
                bike_movements \o [k \in 1..Len(r.movements) |-> DetectedAt(r.movements[k], now + 1)]
          /\ bike_snapshots' =
                bike_snapshots \cup
                  { [time |-> now + 2, bike_id |-> r.snapshots[k].bike_id,
                     station_id |-> r.snapshots[k].station_id,
                     lat |-> r.snapshots[k].lat, lon |-> r.snapshots[k].lon,
                     is_disabled |-> r.snapshots[k].is_disabled] : k \in 1..Len(r.snapshots) }
    /\ now' = now + 2
    /\ UNCHANGED <<trail, analysis>>
    /\ RouteIdle

\* the MovementRecords of b that live detection stamped in the cycle that
\* ended at time t
LiveRecords(b, t) ==
    SelectSeq(bike_movements, LAMBDA m : m.bike_id = b /\ m.detected_at = t - 1)

\* the snapshots of b taken before time t
EarlierSnapshots(b, t) == { sn \in bike_snapshots : sn.bike_id = b /\ sn.time < t }

AuthEmails == {"admin@example.com", "test@example.com", "other@example.com"}

Roles == {"admin", "technician", "viewer"}

\* what the request carries: no Authorization header, a token that does not
\* decode, or the token of the user with some email
NoCredentials == "none"
Credentials == {NoCredentials, "invalid"} \cup AuthEmails

User(email, role) == [email |-> email, role |-> role, is_active |-> TRUE]

NoRequest ==
    [credentials |-> NoCredentials, email |-> "", role |-> "", before |-> {},
     status |-> 0, detail |-> ""]

AuthIdleInit == auth = [users |-> {}, last |-> NoRequest]

\* the users table is empty or holds an administrator created out of band
AuthInit ==
    \E users \in { {}, {User("admin@example.com", "admin")} } :
        auth = [users |-> users, last |-> NoRequest]

role_hierarchy(role) ==
    CASE role = "viewer" -> 0
      [] role = "technician" -> 1
      [] role = "admin" -> 2
      [] OTHER -> 0

\* security + get_current_user + require_role("admin"): status 200 when the
\* request may proceed, else the response of the HTTPException.  HTTPBearer
\* answers a missing header with 403 (401 in later FastAPI versions): bearer.
require_admin(credentials, users, bearer) ==
    IF credentials = NoCredentials
    THEN [status |-> bearer, detail |-> "Not authenticated"]
    ELSE IF credentials \notin { u.email : u \in users }
    THEN [status |-> 401, detail |-> "Could not validate credentials"]
    ELSE LET current_user == CHOOSE u \in users : u.email = credentials
         IN  IF ~ current_user.is_active
             THEN [status |-> 403, detail |-> "Inactive user"]
             ELSE IF role_hierarchy(current_user.role) < role_hierarchy("admin")
             THEN [status |-> 403, detail |-> "Insufficient permissions"]
             ELSE [status |-> 200, detail |-> ""]

\* the handler: dependencies, existence check, repo.create, commit
Register ==
    /\ \E credentials \in Credentials, email \in AuthEmails, role \in Roles,
          bearer \in {401, 403} :
         LET allowed == require_admin(credentials, auth.users, bearer)
             existing_user == \E u \in auth.users : u.email = email
             request == [credentials |-> credentials, email |-> email, role |-> role,
                         before |-> auth.users, status |-> allowed.status,
                         detail |-> allowed.detail]
         IN  IF allowed.status # 200
             THEN auth' = [auth EXCEPT !.last = request]
             ELSE IF existing_user
             THEN auth' = [auth EXCEPT !.last =
                               [request EXCEPT !.status = 400,
                                               !.detail = "Email already registered"]]
             ELSE auth' = [users |-> auth.users \cup {User(email, role)},
                           last |-> [request EXCEPT !.status = 201]]
    /\ TrackerIdle /\ BackfillIdle /\ UNCHANGED <<routeVars, assignVars, calls, poll>>

\* C19: a registration request that carries no credentials succeeds with 201
\* and adds one active user when the email is not registered, is rejected
\* with 400 "already registered" and changes nothing when it is; no two users
\* ever share an email.
C19_RegistrationWithoutCredentials ==
    /\ (auth.last.status # 0 /\ auth.last.credentials = NoCredentials) =>
          IF \E u \in auth.last.before : u.email = auth.last.email
          THEN /\ auth.last.status = 400
               /\ auth.last.detail = "Email already registered"
               /\ auth.users = auth.last.before
          ELSE /\ auth.last.status = 201
               /\ auth.users = auth.last.before
                                 \cup {User(auth.last.email, auth.last.role)}
    /\ \A u, v \in auth.users : u.email = v.email => u = v

Init == TrackerInit /\ BackfillInit /\ RouteInit /\ AssignIdleInit /\ CallsIdleInit /\ PollIdleInit /\ AuthIdleInit

Next == NewTracker \/ TrackWarm \/ TrackCold

Spec == Init /\ [][Next]_vars

InitBackfill == TrackerInit /\ BackfillInit /\ RouteInit /\ AssignIdleInit /\ CallsIdleInit /\ PollIdleInit /\ AuthIdleInit

NextBackfill == AnalyzeHistoricalRequest \/ SnapshotCycle

SpecBackfill == InitBackfill /\ [][NextBackfill]_vars

InitRoute == TrackerInit /\ BackfillInit /\ RouteInit /\ AssignIdleInit /\ CallsIdleInit /\ PollIdleInit /\ AuthIdleInit

NextRoute == OptimizeRoute \/ RouteReturn

SpecRoute == InitRoute /\ [][NextRoute]_vars

InitAssign == TrackerInit /\ BackfillInit /\ RouteInit /\ AssignInit /\ CallsIdleInit /\ PollIdleInit /\ AuthIdleInit

NextAssign == CountBalanceIteration \/ TimeBalanceIteration \/ AssignRoutes

SpecAssign == InitAssign /\ [][NextAssign]_vars

InitCalls == TrackerInit /\ BackfillInit /\ RouteInit /\ AssignIdleInit /\ CallsInit /\ PollIdleInit /\ AuthIdleInit

NextCalls == \E p \in 1..2 : RouteEnter(p) \/ RouteIterate(p) \/ RouteExit(p)

SpecCalls == InitCalls /\ [][NextCalls]_vars

InitPoll == TrackerInit /\ BackfillInit /\ RouteInit /\ AssignIdleInit /\ CallsIdleInit /\ PollIdleInit /\ AuthIdleInit

NextPoll == TrackerInvocation \/ ManualRefresh \/ PollFreeBikeStatus

SpecPoll == InitPoll /\ [][NextPoll]_vars

InitAuth == TrackerInit /\ BackfillInit /\ RouteInit /\ AssignIdleInit /\ CallsIdleInit /\ PollIdleInit /\ AuthInit

NextAuth == Register

SpecAuth == InitAuth /\ [][NextAuth]_vars

InitFollowed == TrackerInit /\ BackfillInit /\ RouteInit /\ AssignIdleInit /\ CallsIdleInit /\ PollIdleInit /\ AuthIdleInit

NextFollowed == NewTracker \/ FollowedWarm \/ FollowedCold

SpecFollowed == InitFollowed /\ [][NextFollowed]_vars

InitLive == TrackerInit /\ BackfillInit /\ RouteInit /\ AssignIdleInit /\ CallsIdleInit /\ PollIdleInit /\ AuthIdleInit

NextLive == LiveCycle \/ (\E hours \in 1..(2 * MaxCycles) : AnalyzeHistorical(hours))

SpecLive == InitLive /\ [][NextLive]_vars

====
